---- MODULE Spec2Model ----
(***************************************************************************)
(* Remote fleet orchestration layer of mads-sys/menu.                      *)
(*                                                                         *)
(* Part I   screen-sharing tunnel orchestrator (src/app.py,                *)
(*          _start_vnc_tunnel / start_vnc and the vnc_processes registry)  *)
(* Part II  host discovery (src/app.py, discover_ips and its strategies)   *)
(* Part III sessions and command execution (src/ssh_service.py,            *)
(*          ssh_connect, _execute_shell_command; src/app.py, the routes)   *)
(* Part IV  launcher file names (src/ssh_service.py,                       *)
(*          _normalize_shortcut_name)                                      *)
(* Part V   per-account fan-out and the launcher backups                   *)
(*          (src/ssh_service.py, _execute_for_each_user and the SFTP       *)
(*          actions)                                                       *)
(* Part VI  streamed command output (src/ssh_service.py,                   *)
(*          _stream_shell_command)                                         *)
(* Part VII status check of a list of hosts (src/app.py, check_status)     *)
(***************************************************************************)
EXTENDS Integers, Sequences, FiniteSets, TLC

(***************************************************************************)
(* Bounds of the model.                                                    *)
(***************************************************************************)
NumThreads == 2      \* request threads of the HTTP server running at once
NumHosts == 2        \* hosts a tunnel may be asked for
MaxProcs == 2        \* ssh children spawned in one behaviour
MaxLines == 2        \* lines one readiness wait takes from the queue

Threads == 1..NumThreads
Hosts == 1..NumHosts
Pids == 1..MaxProcs

(***************************************************************************)
(* Part I.  Tunnel orchestrator                                            *)
(***************************************************************************)
VARIABLES
    vnc_processes,    \* registry: host -> pid of the registered child, 0 = no entry
    procs,            \* pid -> [ip, st]: the ssh children ever spawned
    pc,               \* thread -> position inside start_vnc/_start_vnc_tunnel
    ip,               \* thread -> argument ip of the running call (0 = none)
    proc,             \* thread -> local handle `proc` (0 = Popen not done)
    success,          \* thread -> local `success`
    error_message,    \* thread -> local `error_message`
    all_output_lines, \* thread -> local `all_output_lines`
    ready             \* pids whose call returned success (TunnelProcess `ready`)

tunnelVars == <<vnc_processes, procs, pc, ip, proc, success, error_message,
                all_output_lines, ready>>

(***************************************************************************)
(* Part II.  Host discovery: state                                         *)
(***************************************************************************)
VARIABLES
    dpc,           \* position inside discover_ips
    reach,         \* addresses whose port 22 accepts a connection
    server_ip,     \* own address found by get_local_ip_and_range (0 = None)
    gateway_ip,    \* default gateway found by _get_default_gateway (0 = None)
    nmap_results,  \* what discover_ips_with_nmap returned
    arp_results,   \* what discover_ips_with_arp_scan returned
    active_ips,    \* local `active_ips`
    response,      \* the response of the request
    invoked,       \* strategies invoked so far, in order
    probed         \* addresses handed to _check_ssh_ports_in_parallel

discVars == <<dpc, reach, server_ip, gateway_ip, nmap_results, arp_results,
              active_ips, response, invoked, probed>>

(***************************************************************************)
(* Part III.  Sessions and command execution: state                        *)
(***************************************************************************)
VARIABLES
    spc,           \* position inside the request being served
    req,           \* the request: route, kind of action, target account
    sid,           \* number of SSHClient objects constructed so far
    sess,          \* session -> state of the SSHClient
    attempts,      \* calls of ssh.connect made by the running ssh_connect
    fixes,         \* calls of _fix_host_key made by the running ssh_connect
    caught,        \* local `e` of ssh_connect: the exception its handler caught
    raised,        \* exception leaving ssh_connect / the generator body
    entered,       \* the body of the `with` statement has been entered
    events,        \* what was done on the command's channel, in order
    cred_in_cmd,   \* the command text itself carries the password
    exit_status,   \* local `exit_status` of _execute_shell_command
    error_output,  \* local `error_output`, as a list of lines
    result,        \* outcome of _execute_shell_command / the action
    resp,          \* HTTP status of the response (0 = none yet)
    stream         \* elements yielded by generate_stream

sessVars == <<spc, req, sid, sess, attempts, fixes, caught, raised, entered,
              events, cred_in_cmd, exit_status, error_output, result, resp,
              stream>>

(***************************************************************************)
(* Part IV.  Launcher file names: state                                    *)
(***************************************************************************)
VARIABLES
    filename,      \* argument of the last call of _normalize_shortcut_name
    key            \* what that call returned

nameVars == <<filename, key>>

(***************************************************************************)
(* Part V.  Per-account fan-out and the launcher backups: state            *)
(***************************************************************************)
VARIABLES
    fpc,           \* position inside _execute_for_each_user
    call,          \* the request: action and payload
    users,         \* local `users`
    started,       \* accounts the loop has taken so far
    inflight,      \* accounts whose handler was called and has not returned
    results,       \* local `results`
    reply,         \* what the route answers
    done,          \* actions of the requests answered so far
    desk,          \* account -> base name of its desktop directory
    live,          \* account -> files in its desktop directory
    tree,          \* the backup tree under the home of the session's user
    orig           \* account -> files of its desktop before the first request

fanVars == <<fpc, call, users, started, inflight, results, reply, done, desk, live,
             tree, orig>>

(***************************************************************************)
(* Part VI.  Streamed command output: state.  The generator also uses spc,  *)
(* req, events, exit_status and stream of Part III.                        *)
(***************************************************************************)
VARIABLES
    channel        \* local `channel` of _stream_shell_command

streamVars == <<channel>>

(***************************************************************************)
(* Part VII.  Status check: state                                          *)
(***************************************************************************)
VARIABLES
    cpc,           \* position inside check_status
    ips,           \* local `ips`: the hosts asked for
    threads,       \* local `threads`: the probes started, in order
    statuses       \* local `statuses`: host -> status

checkVars == <<cpc, ips, threads, statuses>>

notTunnel == <<discVars, sessVars, nameVars, fanVars, streamVars, checkVars>>
notDiscovery == <<tunnelVars, sessVars, nameVars, fanVars, streamVars, checkVars>>
notSession == <<tunnelVars, discVars, nameVars, fanVars, streamVars, checkVars>>
notNames == <<tunnelVars, discVars, sessVars, fanVars, streamVars, checkVars>>
notFanOut == <<tunnelVars, discVars, sessVars, nameVars, streamVars, checkVars>>
notStream == <<tunnelVars, discVars, nameVars, fanVars, checkVars>>
notCheck == <<tunnelVars, discVars, sessVars, nameVars, fanVars, streamVars>>

(* A line of child output is described by the signature phrases it contains  *)
(* (the result of every `phrase in line` test of the code) and by the length *)
(* of its stripped text.                                                     *)
Phrases == {"ws_started", "listen_on", "perm_denied", "auth_failed",
            "conn_refused", "no_route", "connect_to_host", "port22_timed_out",
            "sshpass_nf", "x11vnc_nf", "websockify_nf", "no_display",
            "hostkey_failed", "bad_sai", "bad_ct"}

Line(ph, n) == [ph |-> ph, len |-> n]

ShortLen == 40
LongLen == 300

\* lines fed to the readiness wait when the classification itself is studied
MixPhrases == {"ws_started", "perm_denied", "conn_refused", "no_route",
               "hostkey_failed", "x11vnc_nf", "no_display", "bad_sai"}
ScanLines ==
    {Line({p}, ShortLen) : p \in Phrases}
    \cup {Line({p, q}, ShortLen) : p \in MixPhrases, q \in MixPhrases}
    \cup {Line({}, 0), Line({}, ShortLen), Line({}, LongLen)}

\* lines fed to the readiness wait when the registry is studied
CoreLines == {Line({"ws_started"}, ShortLen), Line({"perm_denied"}, ShortLen)}

Msg(k, n) == [k |-> k, n |-> n]
MsgTimeout == Msg("timeout", 0)

Live(p) == p.st \in {"running", "term_sent"}

Spawned == Cardinality({p \in Pids : procs[p].st # "unborn"})

\* calls in flight that have not reached Popen yet
Pending ==
    Cardinality({t \in Threads :
        pc[t] \in {"check", "term_old", "kill_old", "del_old", "spawn"}})

\* Popen.terminate() followed by Popen.wait(timeout): the child either exits
\* within the grace window or is still there when wait raises TimeoutExpired.
TerminateWait(P, p, exits) ==
    IF Live(P[p])
    THEN [P EXCEPT ![p].st = IF exits THEN "dead" ELSE "term_sent"]
    ELSE P

\* Kill with the forced kill left out
KillForgotten(P, p) == P

\* Popen.kill()
Kill(P, p) == IF Live(P[p]) THEN [P EXCEPT ![p].st = "dead"] ELSE P

\* DelEntry emptying the registry instead of dropping one key
DelEveryEntry(reg, h) == [x \in DOMAIN reg |-> 0]

\* del vnc_processes[ip]
DelEntry(reg, h) == [reg EXCEPT ![h] = 0]

\* vnc_processes[ip] = proc
SetEntry(reg, h, p) == [reg EXCEPT ![h] = p]

(* One pass of the body of the readiness loop over a line: the outcome of   *)
(* the if-chain, in the order of the code.  brk tells whether the branch    *)
(* ends with `break`.                                                        *)
LoopMatch(l) ==
    IF "ws_started" \in l.ph \/ "listen_on" \in l.ph
        THEN [k |-> "ok", brk |-> TRUE]
    ELSE IF "perm_denied" \in l.ph \/ "auth_failed" \in l.ph
        THEN [k |-> "auth", brk |-> TRUE]
    ELSE IF "conn_refused" \in l.ph
        THEN [k |-> "refused", brk |-> TRUE]
    ELSE IF "no_route" \in l.ph
        THEN [k |-> "no_route", brk |-> TRUE]
    ELSE IF "connect_to_host" \in l.ph /\ "port22_timed_out" \in l.ph
        THEN [k |-> "ssh_timeout", brk |-> TRUE]
    ELSE IF "sshpass_nf" \in l.ph
        THEN [k |-> "sshpass_nf", brk |-> TRUE]
    ELSE IF "x11vnc_nf" \in l.ph \/ "websockify_nf" \in l.ph
        THEN [k |-> "remote_nf", brk |-> TRUE]
    ELSE IF "no_display" \in l.ph
        THEN [k |-> "no_display", brk |-> TRUE]
    ELSE IF "hostkey_failed" \in l.ph
        THEN [k |-> "hostkey", brk |-> TRUE]
    ELSE IF "bad_sai" \in l.ph
        THEN [k |-> "bad_sai", brk |-> TRUE]
    ELSE IF "bad_ct" \in l.ph
        THEN [k |-> "bad_ct", brk |-> FALSE]
    ELSE [k |-> "none", brk |-> FALSE]

\* `phrase in full_output`, full_output = "\n".join(all_output_lines)
InOutput(lines, p) == \E i \in 1..Len(lines) : p \in lines[i].ph

RECURSIVE SumLen(_)
SumLen(lines) ==
    IF lines = <<>> THEN 0 ELSE Head(lines).len + SumLen(Tail(lines))

\* len("\n".join(all_output_lines))
FullLen(lines) ==
    IF lines = <<>> THEN 0 ELSE SumLen(lines) + (Len(lines) - 1)

SampleLimit == 500

\* Truncate with the slice left out
TruncateNothing(n) == n

\* len(full_output[:500])
Truncate(n) == IF n > SampleLimit THEN SampleLimit ELSE n

(* The rescan of the captured output after a wait that did not succeed:     *)
(* the elif-chain of the code, in its order.                                 *)
RescanOutput(lines, msg) ==
    IF InOutput(lines, "sshpass_nf") THEN Msg("sshpass_nf", 0)
    ELSE IF InOutput(lines, "x11vnc_nf") \/ InOutput(lines, "websockify_nf")
        THEN Msg("remote_nf", 0)
    ELSE IF InOutput(lines, "no_display") THEN Msg("no_display", 0)
    ELSE IF InOutput(lines, "perm_denied") \/ InOutput(lines, "auth_failed")
        THEN Msg("auth", 0)
    ELSE IF InOutput(lines, "conn_refused") THEN Msg("refused", 0)
    ELSE IF InOutput(lines, "no_route") THEN Msg("no_route", 0)
    ELSE IF InOutput(lines, "connect_to_host")
            /\ InOutput(lines, "port22_timed_out")
        THEN Msg("ssh_timeout", 0)
    ELSE IF InOutput(lines, "hostkey_failed") THEN Msg("hostkey", 0)
    ELSE IF InOutput(lines, "bad_sai") THEN Msg("bad_sai", 0)
    ELSE IF InOutput(lines, "bad_ct") THEN Msg("bad_ct", 0)
    ELSE IF FullLen(lines) > 0 THEN Msg("unknown", Truncate(FullLen(lines)))
    ELSE msg

InitTunnel ==
    /\ vnc_processes = [h \in Hosts |-> 0]
    /\ procs = [p \in Pids |-> [ip |-> 0, st |-> "unborn"]]
    /\ pc = [t \in Threads |-> "idle"]
    /\ ip = [t \in Threads |-> 0]
    /\ proc = [t \in Threads |-> 0]
    /\ success = [t \in Threads |-> FALSE]
    /\ error_message = [t \in Threads |-> MsgTimeout]
    /\ all_output_lines = [t \in Threads |-> <<>>]
    /\ ready = {}

\* start_vnc: a request for host h enters _start_vnc_tunnel
Call(t, h) ==
    /\ pc[t] = "idle"
    /\ Spawned + Pending < MaxProcs
    /\ ip' = [ip EXCEPT ![t] = h]
    /\ pc' = [pc EXCEPT ![t] = "check"]
    /\ UNCHANGED <<vnc_processes, procs, proc, success, error_message,
                   all_output_lines>>
    /\ UNCHANGED <<ready, notTunnel>>

\* the batch shape: hosts of the calls in flight are pairwise distinct
CallDistinct(t, h) ==
    /\ \A u \in Threads : pc[u] # "idle" => ip[u] # h
    /\ Call(t, h)

\* if ip in vnc_processes:
CheckExisting(t) ==
    /\ pc[t] = "check"
    /\ pc' = [pc EXCEPT ![t] =
                IF vnc_processes[ip[t]] # 0 THEN "term_old" ELSE "spawn"]
    /\ UNCHANGED <<vnc_processes, procs, ip, proc, success, error_message,
                   all_output_lines>>
    /\ UNCHANGED <<ready, notTunnel>>

\* vnc_processes[ip].terminate(); vnc_processes[ip].wait(timeout=2)
\* (a missing key raises KeyError, which nothing around the call handles)
TerminateOld(t, exits) ==
    /\ pc[t] = "term_old"
    /\ LET old == vnc_processes[ip[t]] IN
       IF old = 0
       THEN /\ pc' = [pc EXCEPT ![t] = "raised"]
            /\ UNCHANGED procs
       ELSE /\ procs' = TerminateWait(procs, old, exits)
            /\ pc' = [pc EXCEPT ![t] =
                        IF Live(procs'[old]) THEN "kill_old" ELSE "del_old"]
    /\ UNCHANGED <<vnc_processes, ip, proc, success, error_message,
                   all_output_lines>>
    /\ UNCHANGED <<ready, notTunnel>>

\* except subprocess.TimeoutExpired: vnc_processes[ip].kill()
KillOld(t) ==
    /\ pc[t] = "kill_old"
    /\ LET old == vnc_processes[ip[t]] IN
       IF old = 0
       THEN /\ pc' = [pc EXCEPT ![t] = "raised"]
            /\ UNCHANGED procs
       ELSE /\ procs' = Kill(procs, old)
            /\ pc' = [pc EXCEPT ![t] = "del_old"]
    /\ UNCHANGED <<vnc_processes, ip, proc, success, error_message,
                   all_output_lines>>
    /\ UNCHANGED <<ready, notTunnel>>

\* del vnc_processes[ip]
DelOld(t) ==
    /\ pc[t] = "del_old"
    /\ IF vnc_processes[ip[t]] = 0
       THEN /\ pc' = [pc EXCEPT ![t] = "raised"]
            /\ UNCHANGED vnc_processes
       ELSE /\ vnc_processes' = DelEntry(vnc_processes, ip[t])
            /\ pc' = [pc EXCEPT ![t] = "spawn"]
    /\ UNCHANGED <<procs, ip, proc, success, error_message, all_output_lines>>
    /\ UNCHANGED <<ready, notTunnel>>

\* proc = subprocess.Popen(...); vnc_processes[ip] = proc; success = False ...
\* (ok = FALSE: Popen raises, e.g. sshpass is not installed)
Spawn(t, ok) ==
    /\ pc[t] = "spawn"
    /\ IF ok
       THEN LET p == Spawned + 1 IN
            /\ procs' = [procs EXCEPT ![p] = [ip |-> ip[t], st |-> "running"]]
            /\ vnc_processes' = SetEntry(vnc_processes, ip[t], p)
            /\ proc' = [proc EXCEPT ![t] = p]
            /\ pc' = [pc EXCEPT ![t] = "wait"]
            /\ success' = [success EXCEPT ![t] = FALSE]
            /\ error_message' = [error_message EXCEPT ![t] = MsgTimeout]
            /\ all_output_lines' = [all_output_lines EXCEPT ![t] = <<>>]
       ELSE /\ pc' = [pc EXCEPT ![t] = "except"]
            /\ UNCHANGED <<procs, vnc_processes, proc, success, error_message,
                           all_output_lines>>
    /\ UNCHANGED ip
    /\ UNCHANGED <<ready, notTunnel>>

\* one iteration of the readiness loop that gets line l from the queue
ReadLine(t, l) ==
    /\ pc[t] = "wait"
    /\ Len(all_output_lines[t]) < MaxLines
    /\ all_output_lines' = [all_output_lines EXCEPT ![t] = Append(@, l)]
    /\ LET m == LoopMatch(l) IN
       /\ success' = [success EXCEPT ![t] = IF m.k = "ok" THEN TRUE ELSE @]
       /\ error_message' = [error_message EXCEPT ![t] =
                              IF m.k = "none" THEN @ ELSE Msg(m.k, 0)]
       /\ pc' = [pc EXCEPT ![t] = IF m.brk THEN "rescan" ELSE "wait"]
    /\ UNCHANGED <<vnc_processes, procs, ip, proc>>
    /\ UNCHANGED <<ready, notTunnel>>

\* while time.time() - start_time < timeout: the condition turns false
WaitExpires(t) ==
    /\ pc[t] = "wait"
    /\ pc' = [pc EXCEPT ![t] = "rescan"]
    /\ UNCHANGED <<vnc_processes, procs, ip, proc, success, error_message,
                   all_output_lines>>
    /\ UNCHANGED <<ready, notTunnel>>

\* an exception raised inside the try block after Popen (reader threads, queue)
SuperviseFails(t) ==
    /\ pc[t] = "wait"
    /\ pc' = [pc EXCEPT ![t] = "except"]
    /\ UNCHANGED <<vnc_processes, procs, ip, proc, success, error_message,
                   all_output_lines>>
    /\ UNCHANGED <<ready, notTunnel>>

\* if not success: full_output = ...; the elif-chain
Rescan(t) ==
    /\ pc[t] = "rescan"
    /\ error_message' = [error_message EXCEPT ![t] =
            IF success[t] THEN @ ELSE RescanOutput(all_output_lines[t], @)]
    /\ pc' = [pc EXCEPT ![t] = "cleanup"]
    /\ UNCHANGED <<vnc_processes, procs, ip, proc, success, all_output_lines>>
    /\ UNCHANGED <<ready, notTunnel>>

\* if not success: proc.terminate(); proc.wait(timeout=1)
CleanupTerminate(t, exits) ==
    /\ pc[t] = "cleanup"
    /\ IF success[t]
       THEN /\ pc' = [pc EXCEPT ![t] = "done"]
            /\ ready' = ready \cup {proc[t]}
            /\ UNCHANGED procs
       ELSE /\ procs' = TerminateWait(procs, proc[t], exits)
            /\ pc' = [pc EXCEPT ![t] =
                        IF Live(procs'[proc[t]]) THEN "kill_new" ELSE "unreg"]
            /\ UNCHANGED ready
    /\ UNCHANGED <<vnc_processes, ip, proc, success, error_message,
                   all_output_lines>>
    /\ UNCHANGED notTunnel

\* except subprocess.TimeoutExpired: proc.kill()
CleanupKill(t) ==
    /\ pc[t] = "kill_new"
    /\ procs' = Kill(procs, proc[t])
    /\ pc' = [pc EXCEPT ![t] = "unreg"]
    /\ UNCHANGED <<vnc_processes, ip, proc, success, error_message,
                   all_output_lines>>
    /\ UNCHANGED <<ready, notTunnel>>

\* if ip in vnc_processes: del vnc_processes[ip]; return success, error_message
Unregister(t) ==
    /\ pc[t] = "unreg"
    /\ vnc_processes' = IF vnc_processes[ip[t]] # 0
                        THEN DelEntry(vnc_processes, ip[t])
                        ELSE vnc_processes
    /\ pc' = [pc EXCEPT ![t] = "done"]
    /\ UNCHANGED <<procs, ip, proc, success, error_message, all_output_lines>>
    /\ UNCHANGED <<ready, notTunnel>>

\* except Exception: if ip in vnc_processes: terminate(); wait(timeout=1)
ExceptTerminate(t, exits) ==
    /\ pc[t] = "except"
    /\ success' = [success EXCEPT ![t] = FALSE]
    /\ error_message' = [error_message EXCEPT ![t] = Msg("internal", 0)]
    /\ LET cur == vnc_processes[ip[t]] IN
       IF cur = 0
       THEN /\ pc' = [pc EXCEPT ![t] = "done"]
            /\ UNCHANGED procs
       ELSE /\ procs' = TerminateWait(procs, cur, exits)
            /\ pc' = [pc EXCEPT ![t] =
                        IF Live(procs'[cur]) THEN "except_kill" ELSE "except_del"]
    /\ UNCHANGED <<vnc_processes, ip, proc, all_output_lines>>
    /\ UNCHANGED <<ready, notTunnel>>

\* except subprocess.TimeoutExpired: vnc_processes[ip].kill()
ExceptKill(t) ==
    /\ pc[t] = "except_kill"
    /\ LET cur == vnc_processes[ip[t]] IN
       IF cur = 0
       THEN /\ pc' = [pc EXCEPT ![t] = "raised"]
            /\ UNCHANGED procs
       ELSE /\ procs' = Kill(procs, cur)
            /\ pc' = [pc EXCEPT ![t] = "except_del"]
    /\ UNCHANGED <<vnc_processes, ip, proc, success, error_message,
                   all_output_lines>>
    /\ UNCHANGED <<ready, notTunnel>>

\* del vnc_processes[ip]; return False, "Erro interno do servidor: ..."
ExceptDel(t) ==
    /\ pc[t] = "except_del"
    /\ IF vnc_processes[ip[t]] = 0
       THEN /\ pc' = [pc EXCEPT ![t] = "raised"]
            /\ UNCHANGED vnc_processes
       ELSE /\ vnc_processes' = DelEntry(vnc_processes, ip[t])
            /\ pc' = [pc EXCEPT ![t] = "done"]
    /\ UNCHANGED <<procs, ip, proc, success, error_message, all_output_lines>>
    /\ UNCHANGED <<ready, notTunnel>>

\* start_vnc: the status of the response built from (success, message)
StartVncStatus(ok) == IF ok THEN 200 ELSE 500

\* start_vnc builds the response from (success, message); the request ends
Return(t) ==
    /\ pc[t] \in {"done", "raised"}
    /\ pc' = [pc EXCEPT ![t] = "idle"]
    /\ ip' = [ip EXCEPT ![t] = 0]
    /\ proc' = [proc EXCEPT ![t] = 0]
    /\ success' = [success EXCEPT ![t] = FALSE]
    /\ error_message' = [error_message EXCEPT ![t] = MsgTimeout]
    /\ all_output_lines' = [all_output_lines EXCEPT ![t] = <<>>]
    /\ UNCHANGED <<vnc_processes, procs>>
    /\ UNCHANGED <<ready, notTunnel>>

\* the ssh child ends by itself (connection lost, remote command over)
ChildExit(p) ==
    /\ Live(procs[p])
    /\ procs' = [procs EXCEPT ![p].st = "dead"]
    /\ UNCHANGED <<vnc_processes, pc, ip, proc, success, error_message,
                   all_output_lines>>
    /\ UNCHANGED <<ready, notTunnel>>

(***************************************************************************)
(* Part II.  Host discovery: operations                                    *)
(*                                                                         *)
(* An address is identified by its last octet; every address lies in the   *)
(* /24 that is scanned.                                                    *)
(***************************************************************************)
MaxAddr == 3         \* addresses that may show up in a tool's output
MaxList == 2         \* length of a list parsed from a tool's output

IP_START == 1
IP_END == 254
IP_EXCLUSION_LIST == {1}

Addrs == 1..MaxAddr

RECURSIVE SeqsUpTo(_, _)
SeqsUpTo(S, n) ==
    IF n = 0 THEN {<<>>}
    ELSE LET shorter == SeqsUpTo(S, n - 1) IN
         shorter \cup {Append(q, x) : q \in shorter, x \in S}

\* None (tool absent, error, timeout) or the list parsed from the tool's output
NoResult == [none |-> TRUE, ips |-> <<>>]
ListResult(q) == [none |-> FALSE, ips |-> q]
ToolResults == {NoResult} \cup {ListResult(q) : q \in SeqsUpTo(Addrs, MaxList)}

\* Truthy asking for more than one host
TruthyMoreThanOne(r) == ~r.none /\ Len(r.ips) > 1

\* `if nmap_results:` / `if arp_results:` (None and [] are both false)
Truthy(r) == ~r.none /\ Len(r.ips) > 0

Range(q) == {q[i] : i \in 1..Len(q)}

\* [x for x in q if keep(x)]
Filter(q, keep) == LET Kept(x) == x \in keep IN SelectSeq(q, Kept)

\* list.remove(x): drops the first occurrence of x
RECURSIVE RemoveFirst(_, _)
RemoveFirst(q, x) ==
    IF q = <<>> THEN <<>>
    ELSE IF Head(q) = x THEN Tail(q)
    ELSE <<Head(q)>> \o RemoveFirst(Tail(q), x)

\* the key of the sort: int(ip.split('.')[-1])
LastOctet(a) == a

RECURSIVE Insert(_, _)
Insert(q, x) ==
    IF q = <<>> THEN <<x>>
    ELSE IF LastOctet(x) < LastOctet(Head(q)) THEN <<x>> \o q
    ELSE <<Head(q)>> \o Insert(Tail(q), x)

\* SortByOctet with the sort left out
SortForgotten(q) == q

\* list.sort(key=...): stable, ascending
RECURSIVE SortByOctet(_)
SortByOctet(q) ==
    IF q = <<>> THEN <<>>
    ELSE Insert(SortByOctet(SubSeq(q, 1, Len(q) - 1)), q[Len(q)])

\* the orders in which pool.imap_unordered may hand back the results for q
Perms(n) == {f \in [1..n -> 1..n] : \A i, j \in 1..n : i # j => f[i] # f[j]}
Shuffles(q) == {[i \in 1..Len(q) |-> q[f[i]]] : f \in Perms(Len(q))}

\* _check_ssh_ports_in_parallel(ips): the addresses whose probe connected
ProbeResults(q, open) == Shuffles(Filter(q, open))

\* the addresses of the configured range, in order
Upto(a, b) == [i \in 1..(b - a + 1) |-> a + i - 1]

\* lines 326-344: the three filters and the sort
Finish(q, srv, gw) ==
    LET a == IF srv # 0 /\ q # <<>> /\ srv \in Range(q)
             THEN RemoveFirst(q, srv) ELSE q
        b == IF gw # 0 /\ a # <<>> /\ gw \in Range(a)
             THEN RemoveFirst(a, gw) ELSE a
        c == IF b # <<>> /\ IP_EXCLUSION_LIST # {}
             THEN Filter(b, Addrs \ IP_EXCLUSION_LIST) ELSE b
    IN IF c # <<>> THEN SortByOctet(c) ELSE c

NoResponse == [success |-> FALSE, status |-> 0, ips |-> <<>>]

InitDiscovery ==
    /\ dpc = "idle"
    /\ reach = {}
    /\ server_ip = 0
    /\ gateway_ip = 0
    /\ nmap_results = NoResult
    /\ arp_results = NoResult
    /\ active_ips = <<>>
    /\ response = NoResponse
    /\ invoked = <<>>
    /\ probed = {}

\* GET /discover-ips: get_local_ip_and_range() returns (srv = 0: the static
\* fallback or WSL without host address); `open` is the state of the network
DiscoverStart(srv, gw, open) ==
    /\ dpc = "idle"
    /\ reach' = open
    /\ server_ip' = srv
    /\ gateway_ip' = gw
    /\ active_ips' = <<>>
    /\ dpc' = "nmap"
    /\ UNCHANGED <<nmap_results, arp_results, response, invoked, probed>>
    /\ UNCHANGED notDiscovery

\* get_local_ip_and_range() raises (socket.connect without a route): nothing
\* in discover_ips handles it, the server answers 500
DiscoverRangeFails ==
    /\ dpc = "idle"
    /\ response' = [success |-> FALSE, status |-> 500, ips |-> <<>>]
    /\ dpc' = "done"
    /\ UNCHANGED <<reach, server_ip, gateway_ip, nmap_results, arp_results,
                   active_ips, invoked, probed>>
    /\ UNCHANGED notDiscovery

\* nmap_results = discover_ips_with_nmap(...); if nmap_results: ...
TryNmap(r) ==
    /\ dpc = "nmap"
    /\ invoked' = Append(invoked, "nmap")
    /\ nmap_results' = r
    /\ IF Truthy(r)
       THEN /\ active_ips' = r.ips
            /\ dpc' = "finish"
       ELSE /\ dpc' = "arp"
            /\ UNCHANGED active_ips
    /\ UNCHANGED <<reach, server_ip, gateway_ip, arp_results, response, probed>>
    /\ UNCHANGED notDiscovery

\* arp_results = discover_ips_with_arp_scan([]); if arp_results: ...
TryArp(r) ==
    /\ dpc = "arp"
    /\ invoked' = Append(invoked, "arp")
    /\ arp_results' = r
    /\ dpc' = IF Truthy(r) THEN "probe_arp" ELSE "brute"
    /\ UNCHANGED <<reach, server_ip, gateway_ip, nmap_results, active_ips,
                   response, probed>>
    /\ UNCHANGED notDiscovery

\* active_ips = _check_ssh_ports_in_parallel(arp_results)
ProbeArp(res) ==
    /\ dpc = "probe_arp"
    /\ res \in ProbeResults(arp_results.ips, reach)
    /\ probed' = Range(arp_results.ips)
    /\ active_ips' = res
    /\ dpc' = "finish"
    /\ UNCHANGED <<reach, server_ip, gateway_ip, nmap_results, arp_results,
                   response, invoked>>
    /\ UNCHANGED notDiscovery

\* active_ips = _check_ssh_ports_in_parallel(all_ips_in_range)
BruteForce(res) ==
    /\ dpc = "brute"
    /\ invoked' = Append(invoked, "brute")
    /\ res \in ProbeResults(Upto(IP_START, IP_END), reach)
    /\ probed' = IP_START..IP_END
    /\ active_ips' = res
    /\ dpc' = "finish"
    /\ UNCHANGED <<reach, server_ip, gateway_ip, nmap_results, arp_results,
                   response>>
    /\ UNCHANGED notDiscovery

\* except Exception: return jsonify({"success": False, ...}), 500
\* (the process pool of _check_ssh_ports_in_parallel raises)
ProbeFails ==
    /\ dpc \in {"probe_arp", "brute"}
    /\ invoked' = IF dpc = "brute" THEN Append(invoked, "brute") ELSE invoked
    /\ response' = [success |-> FALSE, status |-> 500, ips |-> <<>>]
    /\ dpc' = "done"
    /\ UNCHANGED <<reach, server_ip, gateway_ip, nmap_results, arp_results,
                   active_ips, probed>>
    /\ UNCHANGED notDiscovery

\* the filters, the sort and return jsonify({"success": True, "ips": ...}), 200
DiscoverFinish ==
    /\ dpc = "finish"
    /\ active_ips' = Finish(active_ips, server_ip, gateway_ip)
    /\ response' = [success |-> TRUE, status |-> 200, ips |-> active_ips']
    /\ dpc' = "done"
    /\ UNCHANGED <<reach, server_ip, gateway_ip, nmap_results, arp_results,
                   invoked, probed>>
    /\ UNCHANGED notDiscovery

NextDiscovery ==
    \/ \E srv \in Addrs \cup {0}, gw \in Addrs \cup {0}, open \in SUBSET Addrs :
          DiscoverStart(srv, gw, open)
    \/ DiscoverRangeFails
    \/ \E r \in ToolResults : TryNmap(r)
    \/ \E r \in ToolResults : TryArp(r)
    \/ \E res \in SeqsUpTo(Addrs, MaxList) : ProbeArp(res)
    \/ \E res \in SeqsUpTo(Addrs, MaxAddr) : BruteForce(res)
    \/ ProbeFails
    \/ DiscoverFinish

(***************************************************************************)
(* Part III.  Sessions and command execution: operations                   *)
(*                                                                         *)
(* An exception is identified by its class; the text tests of the code     *)
(* (`"does not match" in str(e)`) are decided by the class.                *)
(***************************************************************************)
MaxSessions == 2     \* SSHClient objects constructed in one behaviour
MaxExit == 2         \* largest exit status a remote command reports
MaxErrLines == 2     \* lines a remote command writes to stderr

Sessions == 1..MaxSessions

\* recv_exit_status() gives -1 when the channel closed without a status
ExitCodes == (0 - 1)..MaxExit

\* what ssh.connect may raise
ConnectErrors == {"BadHostKeyException", "AuthenticationException",
                  "SSHException", "timeout", "NoValidConnectionsError"}

\* what exec_command and the reads of a channel may raise
BodyErrors == {"SSHException", "timeout"}

\* except paramiko.SSHException
IsSSHException(x) ==
    x \in {"BadHostKeyException", "AuthenticationException", "SSHException"}

\* IsKeyError taking every SSH failure for a host-key failure
IsKeyErrorAlways(x) == TRUE

\* "host key for server" in error_str and "does not match" in error_str
IsKeyError(x) == x = "BadHostKeyException"

\* the default of the parameter auto_fix_key, which no caller overrides
auto_fix_key == TRUE

\* where a failure inside the try block of ssh_connect leads: the key-purge
\* helper, or the finally clause with the exception re-raised
AfterTryFailure(x) ==
    IF IsSSHException(x) /\ IsKeyError(x) /\ auto_fix_key
    THEN "fix" ELSE "finally"

\* _handle_ssh_exception: status, and whether the answer speaks of the
\* automatic correction ("A correção automática falhou")
HandleSshException(x) ==
    IF x = "AuthenticationException" THEN [status |-> 401, fix_noted |-> FALSE]
    ELSE IF x = "timeout" THEN [status |-> 504, fix_noted |-> FALSE]
    ELSE IF x = "BadHostKeyException" THEN [status |-> 409, fix_noted |-> TRUE]
    ELSE IF x = "UnknownHost" THEN [status |-> 409, fix_noted |-> FALSE]
    ELSE [status |-> 500, fix_noted |-> FALSE]

\* the except clauses of gerenciar_atalhos_ip
RouteHandler(x) ==
    IF IsSSHException(x) \/ x \in {"timeout", "NoValidConnectionsError"}
    THEN HandleSshException(x)
    ELSE [status |-> 500, fix_noted |-> FALSE]

\* final_command of _execute_shell_command: both forms hold "sudo -S"; only
\* the form without an account suppresses sudo's prompt (-p '')
FinalCommand(username) ==
    [sudo_S |-> TRUE, prompt |-> username # 0]

\* a line of stderr, by what the classification can see of it
LineKinds == {"prompt_pt", "prompt_en", "warning", "error", "blank"}

\* stderr a command may produce: sudo prints its prompt only when asked to
StderrOf(cmd) ==
    SeqsUpTo(IF cmd.prompt THEN LineKinds
             ELSE LineKinds \ {"prompt_pt", "prompt_en"}, MaxErrLines)

\* re.sub(r'\[sudo\] (senha|password) para .*:', '', ...) on one line: the
\* pattern asks for "para", which the English prompt ("password for") lacks
StripPrompt(l) == IF l = "prompt_pt" THEN "blank" ELSE l

\* str.strip() of the whole text: blank lines at both ends go
RECURSIVE DropLeadingBlank(_)
DropLeadingBlank(q) ==
    IF q = <<>> THEN <<>>
    ELSE IF Head(q) = "blank" THEN DropLeadingBlank(Tail(q))
    ELSE q

RECURSIVE DropTrailingBlank(_)
DropTrailingBlank(q) ==
    IF q = <<>> THEN <<>>
    ELSE IF q[Len(q)] = "blank" THEN DropTrailingBlank(SubSeq(q, 1, Len(q) - 1))
    ELSE q

\* cleaned_error_output.splitlines()
AllErrorLines(err) ==
    DropTrailingBlank(DropLeadingBlank([i \in 1..Len(err) |-> StripPrompt(err[i])]))

\* [line for line in all_error_lines if line.strip().startswith('W:')]
WarningsOf(q) == LET W(l) == l = "warning" IN SelectSeq(q, W)

\* [line ... if not line.strip().startswith('W:') and line.strip()]
ErrorsOf(q) == LET E(l) == l \notin {"warning", "blank"} IN SelectSeq(q, E)

\* Failed judging by the error lines of stderr
FailedOnStderr(code, err) == ErrorsOf(AllErrorLines(err)) # <<>>

\* if exit_status != 0:
Failed(code, err) == code # 0

NoOutcome == [kind |-> "none", details |-> <<>>, warnings |-> <<>>]

\* lines 114-129 of _execute_shell_command: raise CommandExecutionError or
\* return (output, warnings, None)
ExecuteResult(code, err) ==
    LET lines == AllErrorLines(err) IN
    IF Failed(code, err)
    THEN [kind |-> "CommandExecutionError",
          details |-> IF ErrorsOf(lines) # <<>> THEN ErrorsOf(lines) ELSE lines,
          warnings |-> WarningsOf(lines)]
    ELSE [kind |-> "success", details |-> <<>>, warnings |-> WarningsOf(lines)]

NoRequest == [route |-> "none", kind |-> "none", user |-> 0,
              reachable |-> FALSE, exit |-> 0]

InitSession ==
    /\ spc = "idle"
    /\ req = NoRequest
    /\ sid = 0
    /\ sess = [s \in Sessions |-> "unborn"]
    /\ attempts = 0
    /\ fixes = 0
    /\ caught = "none"
    /\ raised = "none"
    /\ entered = FALSE
    /\ events = <<>>
    /\ cred_in_cmd = FALSE
    /\ exit_status = 0
    /\ error_output = <<>>
    /\ result = NoOutcome
    /\ resp = 0
    /\ stream = <<>>

\* POST /gerenciar_atalhos_ip for a shell action: `with ssh_connect(...)` is
\* entered and ssh = paramiko.SSHClient() built.  kind "fire" is reiniciar or
\* desligar, which are not run per account; user # 0 is an action run for an
\* account of the host
ActionRequest(kind, user) ==
    /\ spc = "idle"
    /\ sid < MaxSessions
    /\ kind = "fire" => user = 0
    /\ req' = [route |-> "action", kind |-> kind, user |-> user,
               reachable |-> FALSE, exit |-> 0]
    /\ sid' = sid + 1
    /\ sess' = [sess EXCEPT ![sid + 1] = "disconnected"]
    /\ spc' = "connect"
    /\ UNCHANGED <<attempts, fixes, caught, raised, entered, events,
                   cred_in_cmd, exit_status, error_output, result, resp,
                   stream>>
    /\ UNCHANGED notSession

\* ssh.connect(ip, ...) of line 42; x is what it raises ("none": connected)
Connect(x) ==
    /\ spc = "connect"
    /\ attempts' = attempts + 1
    /\ IF x = "none"
       THEN /\ sess' = [sess EXCEPT ![sid] = "connected"]
            /\ entered' = TRUE
            /\ spc' = "body"
            /\ UNCHANGED <<caught, raised>>
       ELSE /\ spc' = AfterTryFailure(x)
            /\ caught' = IF IsSSHException(x) THEN x ELSE caught
            /\ raised' = IF AfterTryFailure(x) = "fix" THEN raised ELSE x
            /\ UNCHANGED <<sess, entered>>
    /\ UNCHANGED <<req, sid, fixes, events, cred_in_cmd, exit_status,
                   error_output, result, resp, stream>>
    /\ UNCHANGED notSession

\* if _fix_host_key(ip, logger): ... else: raise e
FixHostKey(ok) ==
    /\ spc = "fix"
    /\ fixes' = fixes + 1
    /\ IF ok
       THEN /\ spc' = "reconnect"
            /\ UNCHANGED raised
       ELSE /\ spc' = "finally"
            /\ raised' = caught
    /\ UNCHANGED <<req, sid, sess, attempts, caught, entered, events,
                   cred_in_cmd, exit_status, error_output, result, resp,
                   stream>>
    /\ UNCHANGED notSession

\* ssh.connect(ip, ...) of line 54 and `yield ssh` of line 55; a failure of
\* this call leaves the generator as it is.  A second yield after the body
\* has already run makes contextlib raise RuntimeError.
Reconnect(x) ==
    /\ spc = "reconnect"
    /\ attempts' = attempts + 1
    /\ IF x = "none"
       THEN /\ sess' = [sess EXCEPT ![sid] = "connected"]
            /\ IF entered
               THEN /\ raised' = "RuntimeError"
                    /\ spc' = "finally"
                    /\ UNCHANGED entered
               ELSE /\ entered' = TRUE
                    /\ spc' = "body"
                    /\ UNCHANGED raised
       ELSE /\ raised' = x
            /\ spc' = "finally"
            /\ UNCHANGED <<sess, entered>>
    /\ UNCHANGED <<req, sid, fixes, caught, events, cred_in_cmd, exit_status,
                   error_output, result, resp, stream>>
    /\ UNCHANGED notSession

\* _handle_shell_action for reiniciar/desligar: ssh.exec_command(command) with
\* the command of _build_fire_and_forget_command ("echo <password> | sudo -S
\* nohup ..."), nothing written to stdin, success returned at once
FireAndForget ==
    /\ spc = "body"
    /\ req.kind = "fire"
    /\ events' = Append(events, "exec")
    /\ cred_in_cmd' = TRUE
    /\ result' = [kind |-> "sent", details |-> <<>>, warnings |-> <<>>]
    /\ spc' = "finally"
    /\ UNCHANGED <<req, sid, sess, attempts, fixes, caught, raised, entered,
                   exit_status, error_output, resp, stream>>
    /\ UNCHANGED notSession

\* _execute_shell_command: stdin, stdout, stderr = ssh.exec_command(...)
ExecInvoke ==
    /\ spc = "body"
    /\ req.kind = "execute"
    /\ events' = Append(events, "exec")
    /\ spc' = "write"
    /\ UNCHANGED <<req, sid, sess, attempts, fixes, caught, raised, entered,
                   cred_in_cmd, exit_status, error_output, result, resp,
                   stream>>
    /\ UNCHANGED notSession

\* if "sudo -S" in final_command: stdin.write(password + '\n'); stdin.flush()
WriteCredential ==
    /\ spc = "write"
    /\ events' = IF FinalCommand(req.user).sudo_S
                 THEN Append(events, "cred") ELSE events
    /\ spc' = "await"
    /\ UNCHANGED <<req, sid, sess, attempts, fixes, caught, raised, entered,
                   cred_in_cmd, exit_status, error_output, result, resp,
                   stream>>
    /\ UNCHANGED notSession

\* exit_status = stdout.channel.recv_exit_status(); the reads; lines 114-129
AwaitExit(code, err) ==
    /\ spc = "await"
    /\ err \in StderrOf(FinalCommand(req.user))
    /\ events' = Append(events, "exit")
    /\ exit_status' = code
    /\ error_output' = err
    /\ result' = ExecuteResult(code, err)
    /\ spc' = "finally"
    /\ UNCHANGED <<req, sid, sess, attempts, fixes, caught, raised, entered,
                   cred_in_cmd, resp, stream>>
    /\ UNCHANGED notSession

\* exec_command or a read raises x while the action runs for an account: the
\* loop of _execute_for_each_user catches it (except Exception) and records a
\* failed entry for the account
UnitFails(x) ==
    /\ spc \in {"body", "await"}
    /\ req.user # 0
    /\ result' = [kind |-> "exception", details |-> <<>>, warnings |-> <<>>]
    /\ spc' = "finally"
    /\ UNCHANGED <<req, sid, sess, attempts, fixes, caught, raised, entered,
                   events, cred_in_cmd, exit_status, error_output, resp,
                   stream>>
    /\ UNCHANGED notSession

\* exec_command or a read raises x in a system-wide action: the exception
\* leaves the with body and is thrown into ssh_connect at its yield (line 43,
\* inside the try, when the first connect succeeded; line 55, inside the
\* handler, after a retry)
BodyFails(x) ==
    /\ spc \in {"body", "await"}
    /\ req.user = 0
    /\ IF attempts = 1
       THEN /\ spc' = AfterTryFailure(x)
            /\ caught' = IF IsSSHException(x) THEN x ELSE caught
            /\ raised' = IF AfterTryFailure(x) = "fix" THEN raised ELSE x
       ELSE /\ spc' = "finally"
            /\ raised' = x
            /\ UNCHANGED caught
    /\ UNCHANGED <<req, sid, sess, attempts, fixes, entered, events,
                   cred_in_cmd, exit_status, error_output, result, resp,
                   stream>>
    /\ UNCHANGED notSession

\* a finally clause that leaves the session as it is
CloseForgotten(S, s) == S

\* ssh.close()
Close(S, s) == [S EXCEPT ![s] = "closed"]

\* finally: ssh.close()
Finally ==
    /\ spc = "finally"
    /\ sess' = Close(sess, sid)
    /\ spc' = "respond"
    /\ UNCHANGED <<req, sid, attempts, fixes, caught, raised, entered, events,
                   cred_in_cmd, exit_status, error_output, result, resp,
                   stream>>
    /\ UNCHANGED notSession

\* the response of gerenciar_atalhos_ip: the except clauses, or the status
\* made from the result of the action (200 or 500 for a system-wide action,
\* 200 or 207 for an action run per account)
Respond ==
    /\ spc = "respond"
    /\ resp' = IF raised # "none" THEN RouteHandler(raised).status
               ELSE IF result.kind \in {"success", "sent"} THEN 200
               ELSE IF req.user # 0 THEN 207
               ELSE 500
    /\ spc' = "done"
    /\ UNCHANGED <<req, sid, sess, attempts, fixes, caught, raised, entered,
                   events, cred_in_cmd, exit_status, error_output, result,
                   stream>>
    /\ UNCHANGED notSession

\* POST /stream-action; known: the action has a command builder; reachable
\* and code describe the host (it accepts the connection and the command runs
\* to its end with that exit status)
StreamRequest(known, reachable, code) ==
    /\ spc = "idle"
    /\ req' = [route |-> "stream", kind |-> "stream", user |-> 0,
               reachable |-> reachable, exit |-> code]
    /\ IF known
       THEN /\ spc' = "s_call"
            /\ UNCHANGED resp
       ELSE /\ spc' = "done"
            /\ resp' = 400
    /\ UNCHANGED <<sid, sess, attempts, fixes, caught, raised, entered, events,
                   cred_in_cmd, exit_status, error_output, result, stream>>
    /\ UNCHANGED notSession

\* generate_stream: `with ssh_connect(ip, SSH_USER, password) as ssh:` gives
\* three arguments to a function whose fourth parameter, logger, has no
\* default: the call raises TypeError before ssh_connect runs
StreamCall ==
    /\ spc = "s_call"
    /\ raised' = "TypeError"
    /\ spc' = "s_except"
    /\ UNCHANGED <<req, sid, sess, attempts, fixes, caught, entered, events,
                   cred_in_cmd, exit_status, error_output, result, resp,
                   stream>>
    /\ UNCHANGED notSession

ErrorSentinel == [k |-> "STREAM_ERROR", code |-> 0]
EndSentinel(code) == [k |-> "STREAM_END", code |-> code]

\* except Exception as e: yield f"__STREAM_ERROR__:..."; the generator ends
StreamExcept ==
    /\ spc = "s_except"
    /\ stream' = Append(stream, ErrorSentinel)
    /\ resp' = 200
    /\ spc' = "done"
    /\ UNCHANGED <<req, sid, sess, attempts, fixes, caught, raised, entered,
                   events, cred_in_cmd, exit_status, error_output, result>>
    /\ UNCHANGED notSession

\* the request is over; the next one starts from fresh locals
EndRequest ==
    /\ spc = "done"
    /\ spc' = "idle"
    /\ req' = NoRequest
    /\ attempts' = 0
    /\ fixes' = 0
    /\ caught' = "none"
    /\ raised' = "none"
    /\ entered' = FALSE
    /\ events' = <<>>
    /\ cred_in_cmd' = FALSE
    /\ exit_status' = 0
    /\ error_output' = <<>>
    /\ result' = NoOutcome
    /\ resp' = 0
    /\ stream' = <<>>
    /\ UNCHANGED <<sid, sess>>
    /\ UNCHANGED notSession

NextSession ==
    \/ \E kind \in {"execute", "fire"}, user \in {0, 1} :
          ActionRequest(kind, user)
    \/ \E x \in ConnectErrors \cup {"none"} : Connect(x)
    \/ \E ok \in BOOLEAN : FixHostKey(ok)
    \/ \E x \in ConnectErrors \cup {"none"} : Reconnect(x)
    \/ FireAndForget
    \/ ExecInvoke
    \/ WriteCredential
    \/ \E code \in ExitCodes, err \in SeqsUpTo(LineKinds, MaxErrLines) :
          AwaitExit(code, err)
    \/ \E x \in BodyErrors : UnitFails(x)
    \/ \E x \in BodyErrors : BodyFails(x)
    \/ Finally
    \/ Respond
    \/ \E known \in BOOLEAN, reachable \in BOOLEAN, code \in ExitCodes :
          StreamRequest(known, reachable, code)
    \/ StreamCall
    \/ StreamExcept
    \/ EndRequest

(***************************************************************************)
(* Part IV.  Launcher file names (src/ssh_service.py,                      *)
(*           _normalize_shortcut_name)                                     *)
(***************************************************************************)
MaxStem == 3         \* characters in the stem of a file name

\* A file name is its stem, as a sequence of characters, and its extension;
\* a launcher is a name for which filename.endswith('.desktop') holds.
Chars == {"a", " ", "-", "_", "1", "2"}
Digits == {"1", "2"}
Separators == {"-", "_"}
StripChars == {" ", "-", "_"}

FileNames == [stem : SeqsUpTo(Chars, MaxStem), ext : {".desktop", ".txt"}]
NoFile == [stem |-> <<>>, ext |-> ""]

Launcher(f) == f.ext = ".desktop"

\* number of characters matched by \d+$ : the longest run of digits ending s
TrailingDigits(s) ==
    LET n == Len(s)
        IsRun(j) == \A i \in (n - j + 1)..n : s[i] \in Digits
    IN  CHOOSE j \in 0..n : IsRun(j) /\ (j < n => ~IsRun(j + 1))

\* re.sub(r'[-_]?\d+$', '', name_part): the leftmost match is the digit run
\* that ends the text together with one separator right before it
ReSub(name_part) ==
    LET d == TrailingDigits(name_part)
        rest == SubSeq(name_part, 1, Len(name_part) - d)
    IN  IF d = 0 THEN name_part
        ELSE IF rest # <<>> /\ rest[Len(rest)] \in Separators
             THEN SubSeq(rest, 1, Len(rest) - 1)
             ELSE rest

\* str.strip(' -_')
Strip(s) ==
    LET keep == {i \in 1..Len(s) : s[i] \notin StripChars}
    IN  IF keep = {} THEN <<>>
        ELSE SubSeq(s, CHOOSE i \in keep : \A j \in keep : i <= j,
                       CHOOSE i \in keep : \A j \in keep : j <= i)

\* the key with the guard on an emptied stem left out
NormalizeUnguarded(f) ==
    IF ~Launcher(f) THEN f ELSE [f EXCEPT !.stem = ReSub(f.stem)]

\* _normalize_shortcut_name(filename)
NormalizeShortcutName(f) ==
    IF ~Launcher(f) THEN f
    ELSE LET normalized_name_part == ReSub(f.stem)
         IN  IF Strip(normalized_name_part) = <<>> THEN f
             ELSE [f EXCEPT !.stem = normalized_name_part]

InitNames ==
    /\ filename = NoFile
    /\ key = NoFile

\* one call of _normalize_shortcut_name
Normalize(f) ==
    /\ filename' = f
    /\ key' = NormalizeShortcutName(f)
    /\ UNCHANGED notNames

NextNames == \E f \in FileNames : Normalize(f)

(***************************************************************************)
(* Part V.  Per-account fan-out and the launcher backups                   *)
(*          (src/ssh_service.py, _execute_for_each_user, _handle_sftp_     *)
(*          action, sftp_disable_shortcuts, sftp_restore_shortcuts;        *)
(*          src/app.py, _handle_shell_action, gerenciar_atalhos_ip)        *)
(***************************************************************************)
MaxCalls == 2        \* fan-out requests served in one behaviour
MaxRequested == 2    \* paths in the backup_files of one restore request

\* the accounts `getent passwd` can list; the session is the one of SSH_USER
Accounts == {"aluno", "prof"}
SSH_USER == "aluno"

\* the orders in which the listing may name the accounts of a host
PasswdOrders ==
    {<<>>, <<"aluno">>, <<"prof">>, <<"aluno", "prof">>, <<"prof", "aluno">>}

\* base names a desktop directory has on the hosts of the model, two of
\* possible_dirs
DeskNames == {"Area de Trabalho", "Desktop"}

\* file names found on the desktops: two launchers whose names differ in the
\* numeric ending only, and a file that is no launcher
A1 == [stem |-> <<"a", "-", "1">>, ext |-> ".desktop"]
A2 == [stem |-> <<"a", "_", "2">>, ext |-> ".desktop"]
Txt == [stem |-> <<"a">>, ext |-> ".txt"]
\* names the files on the desktop of an account are drawn from
HostNames(a) == IF a = SSH_USER THEN {A1, A2, Txt} ELSE {A1}

\* a file is its name and the account on whose desktop it was created
File(n, o) == [name |-> n, owner |-> o]
\* a file of the backup tree: <backup_root>/<dir>/<name>
Entry(dir, f) == [dir |-> dir, name |-> f.name, owner |-> f.owner]

\* paths a restore request may name: <dir>/<file name>
RequestPaths == [dir : DeskNames, name : {A1, A2}]

sftp_shortcut_actions == {"desativar", "ativar"}
Wallpaper == "definir_papel_de_parede"
\* per-account shell actions: a command text, and a builder that may decline
ShellActions == {"mostrar_sistema", "enviar_mensagem"}
\* the actions gerenciar_atalhos_ip runs for each account
user_specific_actions == sftp_shortcut_actions \cup {Wallpaper} \cup ShellActions
\* system-wide actions: a builder that may decline, one that never does, and
\* a name the dispatch table does not hold
SystemActions == {"kill_process", "disable_sleep_button", "unknown_action"}
\* the keys of the dispatch table
COMMANDS ==
    {"mostrar_sistema", "enviar_mensagem", "kill_process",
     "disable_sleep_button"}
\* the builders that answer an error_response for some payloads
DecliningBuilders == {"enviar_mensagem", "kill_process"}

\* the payload of a request: valid = the builder accepts it (enviar_mensagem
\* with a message), wallpaper = state of wallpaper_data / wallpaper_filename
Payload(action, valid, wallpaper, backup_files) ==
    [action |-> action, valid |-> valid, wallpaper |-> wallpaper,
     backup_files |-> backup_files, backed |-> {}]

NoCall == Payload("none", TRUE, "none", <<>>)

\* what one unit of the loop stores in results[user]: the dict of a handler,
\* or the (response, 400) tuple _handle_shell_action returns when the builder
\* declines the payload; n is the count the message carries
Dict(ok, msg, n, errs, warns) ==
    [type |-> "dict", success |-> ok, message |-> msg, n |-> n,
     errors |-> errs, warnings |-> warns]
Tuple400 ==
    [type |-> "tuple", success |-> FALSE, message |-> "declined", n |-> 0,
     errors |-> <<>>, warnings |-> <<>>]

\* the entries written by the two except clauses of the loop
RemoteErrorEntry == Dict(FALSE, "remote_error", 0, <<>>, <<>>)
ExceptionEntry == Dict(FALSE, "unexpected", 0, <<>>, <<>>)

NoResults == [u \in {} |-> ExceptionEntry]
NoReply == [kind |-> "none", status |-> 0, success |-> FALSE, n |-> 0,
            user_results |-> NoResults]
\* a response that is no aggregate: kind names the return statement
ErrorReply(kind, status) == [NoReply EXCEPT !.kind = kind, !.status = status]

NoTree == [root |-> FALSE, dirs |-> {}, files |-> {}]

\* any(...) in place of all(...)
AnySuccess(rs) == \E u \in DOMAIN rs : rs[u].success

\* all(r.get('success', False) for r in results.values())
AllSuccess(rs) == \A u \in DOMAIN rs : rs[u].success

\* sum(1 for r in results.values() if r.get('success', False))
SuccessCount(rs) == Cardinality({u \in DOMAIN rs : rs[u].success})

\* 200 if all_success else 207
FanOutStatus(all_success) == IF all_success THEN 200 ELSE 207

\* r.get raises AttributeError on a tuple
GetRaises(rs) == \E u \in DOMAIN rs : rs[u].type = "tuple"

\* a loop that does not wait for the unit it started
LoopRunsAhead(fl) == TRUE

\* `for user in users:` calls the handler and goes on when it has returned
LoopMayAdvance(fl) == fl = {}

\* _handle_shell_action / _handle_set_wallpaper_for_user for one account: o is
\* what the remote command does
ShellResult(c, o) ==
    IF c.action \notin COMMANDS \cup {Wallpaper} THEN Tuple400
    ELSE IF c.action \in DecliningBuilders /\ ~c.valid THEN Tuple400
    ELSE IF o = "ok" THEN Dict(TRUE, "output", 0, <<>>, <<>>)
    ELSE IF o = "failed" THEN RemoteErrorEntry
    ELSE ExceptionEntry

\* _get_remote_desktop_path: desk[a] is the base name `xdg-user-dir DESKTOP`
\* answers for account a, "" when it answers nothing; the fallback looks into
\* the home of the session's user
NoPath == [owner |-> "", base |-> ""]
GetRemoteDesktopPath(username) ==
    IF desk[username] # "" THEN [owner |-> username, base |-> desk[username]]
    ELSE IF desk[SSH_USER] # ""
         THEN [owner |-> SSH_USER, base |-> desk[SSH_USER]]
         ELSE NoPath

\* a rename that replaces the file the destination names
RenameOverwrites(present, name) == FALSE

\* sftp.rename(source, destination) raises IOError when the destination
\* exists (SSH_FXP_RENAME does not replace); present = the names in the
\* directory of the destination
RenameFails(present, name) == name \in present

\* directory S after a file was renamed to f in it
Put(S, f) == {h \in S : h.name # f.name} \cup {f}

\* sftp_disable_shortcuts on desktops L and backup tree T: the outcomes it
\* may have.  sftp.rename fails when the destination exists; the files that
\* listdir named before the first such file are moved already.
SftpDisableShortcuts(L, T, username) ==
    LET path == GetRemoteDesktopPath(username)
        made == [T EXCEPT !.root = TRUE, !.dirs = @ \cup {path.base}]
        found == {f \in L[path.owner] : Launcher(f.name)}
        taken == {g.name : g \in {h \in T.files : h.dir = path.base}}
        clash == {f \in found : RenameFails(taken, f.name)}
        Moved(S) == [L EXCEPT ![path.owner] = @ \ S]
        Kept(S) == [made EXCEPT !.files =
                      {h \in @ : ~(h.dir = path.base
                                     /\ h.name \in {f.name : f \in S})}
                      \cup {Entry(path.base, f) : f \in S}]
    IN  IF path = NoPath
        THEN {[live |-> L, tree |-> T, raised |-> FALSE,
               r |-> Dict(TRUE, "ERRO_desktop", 0, <<>>, <<>>)]}
        ELSE IF clash = {}
        THEN {[live |-> Moved(found), tree |-> Kept(found), raised |-> FALSE,
               r |-> Dict(TRUE, "disabled", Cardinality(found), <<>>, <<>>)]}
        ELSE {[live |-> Moved(S), tree |-> Kept(S), raised |-> TRUE,
               r |-> ExceptionEntry] : S \in SUBSET (found \ clash)}

\* a key that is the file name itself
KeyExact(dir, name) == [dir |-> dir, name |-> name]

\* the key of available_backups_map for a file of the tree or a request
Key(dir, name) == [dir |-> dir, name |-> NormalizeShortcutName(name)]

\* available_backups_map after lines 242-252: one real path per key; which
\* one, for a key several files share, is decided by the order of listdir
Indexes(T) ==
    LET keys == {Key(g.dir, g.name) : g \in T.files}
    IN  {m \in [keys -> T.files] :
            \A kk \in keys : Key(m[kk].dir, m[kk].name) = kk}

\* a rename that is not counted
RestoredUncounted(st, g) ==
    [st EXCEPT !.files = @ \ {g},
               !.desktop = Put(@, File(g.name, g.owner))]

\* sftp.rename(source, destination) went through; files_restored += 1
Restored(st, g) ==
    [st EXCEPT !.files = @ \ {g},
               !.desktop = Put(@, File(g.name, g.owner)),
               !.n = @ + 1]

\* lines 256-273: the requests in order; st holds the desktop directory, the
\* files of the tree and the three locals
RECURSIVE RestoreLoop(_, _, _)
RestoreLoop(m, reqs, st) ==
    IF reqs = <<>> THEN st
    ELSE LET p == Head(reqs)
             lookup_key == Key(p.dir, p.name)
         IN  IF lookup_key \in DOMAIN m
             THEN LET g == m[lookup_key]
                      ok == /\ g \in st.files
                            /\ ~RenameFails({f.name : f \in st.desktop},
                                            g.name)
                  IN  RestoreLoop(m, Tail(reqs),
                        IF ok THEN Restored(st, g)
                        ELSE [st EXCEPT !.errors = Append(@, g.name)])
             ELSE RestoreLoop(m, Tail(reqs),
                        [st EXCEPT !.warnings = Append(@, p.name)])

\* a restore that counts a miss as a failure
RestoreSuccessStrict(errors, warnings) == errors = <<>> /\ warnings = <<>>

\* `success = not errors` of the 'ativar' branch: warnings do not count
RestoreSuccess(errors, warnings) == errors = <<>>

\* sftp_restore_shortcuts followed by lines 311-316 of _handle_sftp_action
SftpRestoreShortcuts(L, T, username, backup_files) ==
    LET path == GetRemoteDesktopPath(username)
        Run(m) == RestoreLoop(m, backup_files,
                     [desktop |-> L[path.owner], files |-> T.files, n |-> 0,
                      errors |-> <<>>, warnings |-> <<>>])
    IN  IF path = NoPath
        THEN {[live |-> L, tree |-> T, raised |-> FALSE,
               r |-> Dict(TRUE, "ERRO_desktop", 0, <<>>, <<>>)]}
        ELSE IF ~T.root
        THEN {[live |-> L, tree |-> T, raised |-> FALSE,
               r |-> Dict(TRUE, "ERRO_backup", 0, <<>>, <<>>)]}
        ELSE {[live |-> [L EXCEPT ![path.owner] = Run(m).desktop],
               tree |-> [T EXCEPT !.files = Run(m).files],
               raised |-> FALSE,
               r |-> Dict(RestoreSuccess(Run(m).errors, Run(m).warnings),
                          "restored", Run(m).n,
                          Run(m).errors, Run(m).warnings)] : m \in Indexes(T)}

\* _handle_sftp_action
HandleSftpAction(L, T, username, c) ==
    IF c.action = "desativar" THEN SftpDisableShortcuts(L, T, username)
    ELSE IF c.backup_files = <<>>
    THEN {[live |-> L, tree |-> T, raised |-> FALSE,
           r |-> Dict(FALSE, "none_selected", 0, <<>>, <<>>)]}
    ELSE SftpRestoreShortcuts(L, T, username, c.backup_files)

InitFanOut ==
    /\ fpc = "idle"
    /\ call = NoCall
    /\ users = <<>>
    /\ started = 0
    /\ inflight = {}
    /\ results = NoResults
    /\ reply = NoReply
    /\ done = <<>>
    /\ desk = [a \in Accounts |-> ""]
    /\ live = [a \in Accounts |-> {}]
    /\ tree = NoTree
    /\ orig = [a \in Accounts |-> {}]

\* the host before the first request: d[a] is the desktop directory of
\* account a ("" = none), l[a] the names of the files in it; no backup yet
HostSetup(d, l) ==
    /\ fpc = "idle"
    /\ done = <<>>
    /\ desk = [a \in Accounts |-> ""]
    /\ \A a \in Accounts : l[a] \subseteq HostNames(a)
    /\ \A a \in Accounts : d[a] = "" => l[a] = {}
    /\ desk' = d
    /\ live' = [a \in Accounts |-> {File(n, a) : n \in l[a]}]
    /\ orig' = live'
    /\ UNCHANGED <<fpc, call, users, started, inflight, results, reply, done, tree>>
    /\ UNCHANGED notFanOut

\* gerenciar_atalhos_ip was asked for an action of user_specific_actions and
\* calls _execute_for_each_user(ssh, action, data, logger)
FanOutCall(c) ==
    /\ fpc = "idle"
    /\ Len(done) < MaxCalls
    /\ call' = [c EXCEPT !.backed =
                   {[dir |-> g.dir, name |-> g.name] : g \in tree.files}]
    /\ fpc' = "list"
    /\ users' = <<>>
    /\ started' = 0
    /\ inflight' = {}
    /\ results' = NoResults
    /\ reply' = NoReply
    /\ UNCHANGED <<done, desk, live, tree, orig>>
    /\ UNCHANGED notFanOut

\* the else branch of gerenciar_atalhos_ip (lines 575-582) and its `except
\* Exception`: result.get raises AttributeError on the tuple of a refused
\* action.  No message of _handle_shell_action holds "autenticação", so a
\* failure is a 500.
SystemReply(r) ==
    IF r.type = "tuple" THEN ErrorReply("unhandled", 500)
    ELSE [kind |-> "system", status |-> IF r.success THEN 200 ELSE 500,
          success |-> r.success, n |-> 0, user_results |-> NoResults]

\* gerenciar_atalhos_ip was asked for an action that is not run per account:
\* _handle_shell_action(ssh, None, action, data) and the response; o is what
\* the remote command does
SystemCall(c, o) ==
    /\ fpc = "idle"
    /\ Len(done) < MaxCalls
    /\ c.action \notin user_specific_actions
    /\ call' = c
    /\ reply' = SystemReply(ShellResult(c, o))
    /\ fpc' = "done"
    /\ users' = <<>>
    /\ started' = 0
    /\ inflight' = {}
    /\ results' = NoResults
    /\ UNCHANGED <<done, desk, live, tree, orig>>
    /\ UNCHANGED notFanOut

\* lines 357-363: the listing of the accounts; err = it wrote to stderr
ListUsers(us, err) ==
    /\ fpc = "list"
    /\ users' = us
    /\ IF err /\ us = <<>>
       THEN reply' = ErrorReply("no_users", 500) /\ fpc' = "done"
       ELSE /\ reply' = reply
            /\ fpc' = IF call.action = Wallpaper THEN "upload" ELSE "loop"
    /\ UNCHANGED <<call, started, inflight, results, done, desk, live, tree, orig>>
    /\ UNCHANGED notFanOut

\* lines 371-393: the image is decoded and uploaded once; ok = the upload
\* went through
Upload(ok) ==
    /\ fpc = "upload"
    /\ IF call.wallpaper # "ok"
       THEN reply' = ErrorReply("bad_image", 400) /\ fpc' = "done"
       ELSE IF ~ok
       THEN reply' = ErrorReply("upload_failed", 500) /\ fpc' = "done"
       ELSE reply' = reply /\ fpc' = "loop"
    /\ UNCHANGED <<call, users, started, inflight, results, done, desk, live, tree,
                   orig>>
    /\ UNCHANGED notFanOut

\* line 395: the loop takes the next account and calls its handler
UnitStart ==
    /\ fpc = "loop"
    /\ started < Len(users)
    /\ LoopMayAdvance(inflight)
    /\ started' = started + 1
    /\ inflight' = inflight \cup {users[started + 1]}
    /\ UNCHANGED <<fpc, call, users, results, reply, done, desk, live, tree,
                   orig>>
    /\ UNCHANGED notFanOut

\* lines 397-409, 415-426: the handler of a shell action returns or raises and
\* the entry of the account is written
ShellUnit(u, o) ==
    /\ fpc = "loop"
    /\ u \in inflight
    /\ call.action \notin sftp_shortcut_actions
    /\ results' = (u :> ShellResult(call, o)) @@ results
    /\ inflight' = inflight \ {u}
    /\ UNCHANGED <<fpc, call, users, started, reply, done, desk, live, tree, orig>>
    /\ UNCHANGED notFanOut

\* lines 410-411, 416-426: _handle_sftp_action returns or raises and the entry
\* of the account is written
SftpUnit(u) ==
    /\ fpc = "loop"
    /\ u \in inflight
    /\ call.action \in sftp_shortcut_actions
    /\ \E out \in HandleSftpAction(live, tree, u, call) :
          /\ live' = out.live
          /\ tree' = out.tree
          /\ results' = (u :> out.r) @@ results
    /\ inflight' = inflight \ {u}
    /\ UNCHANGED <<fpc, call, users, started, reply, done, desk, orig>>
    /\ UNCHANGED notFanOut

\* lines 428-445, and the except clause of gerenciar_atalhos_ip that answers
\* the AttributeError of line 430
Aggregate ==
    /\ fpc = "loop"
    /\ started = Len(users)
    /\ LoopMayAdvance(inflight)
    /\ reply' = IF GetRaises(results) THEN ErrorReply("unhandled", 500)
                ELSE [kind |-> "aggregate",
                      status |-> FanOutStatus(AllSuccess(results)),
                      success |-> AllSuccess(results),
                      n |-> SuccessCount(results),
                      user_results |-> results]
    /\ fpc' = "done"
    /\ UNCHANGED <<call, users, started, inflight, results, done, desk, live, tree,
                   orig>>
    /\ UNCHANGED notFanOut

\* the response is sent; the next request starts from fresh locals
EndCall ==
    /\ fpc = "done"
    /\ fpc' = "idle"
    /\ done' = Append(done, call.action)
    /\ call' = NoCall
    /\ users' = <<>>
    /\ started' = 0
    /\ inflight' = {}
    /\ results' = NoResults
    /\ reply' = NoReply
    /\ UNCHANGED <<desk, live, tree, orig>>
    /\ UNCHANGED notFanOut

\* requests for the shell actions and the wallpaper
ShellCalls ==
    {Payload("mostrar_sistema", TRUE, "none", <<>>)}
    \cup {Payload("enviar_mensagem", v, "none", <<>>) : v \in BOOLEAN}
    \cup {Payload(Wallpaper, TRUE, w, <<>>) : w \in {"missing", "malformed", "ok"}}

\* requests for the system-wide actions
SystemCalls == {Payload(a, v, "none", <<>>) : a \in SystemActions, v \in BOOLEAN}

\* requests for the two launcher actions
SftpCalls ==
    {Payload("desativar", TRUE, "none", <<>>)}
    \cup {Payload("ativar", TRUE, "none", bf) :
             bf \in SeqsUpTo(RequestPaths, MaxRequested)}

NextFanOut ==
    \/ \E c \in ShellCalls : FanOutCall(c)
    \/ \E c \in SystemCalls, o \in {"ok", "failed"} : SystemCall(c, o)
    \/ \E us \in PasswdOrders, err \in BOOLEAN : ListUsers(us, err)
    \/ \E ok \in BOOLEAN : Upload(ok)
    \/ UnitStart
    \/ \E u \in Accounts, o \in {"ok", "failed", "exception"} : ShellUnit(u, o)
    \/ Aggregate
    \/ EndCall

NextBackup ==
    \/ \E d \in [Accounts -> DeskNames \cup {""}],
          l \in [Accounts -> SUBSET {A1, A2, Txt}] : HostSetup(d, l)
    \/ \E c \in SftpCalls : FanOutCall(c)
    \/ ListUsers(<<"aluno", "prof">>, FALSE)
    \/ UnitStart
    \/ \E u \in Accounts : SftpUnit(u)
    \/ Aggregate
    \/ EndCall

(***************************************************************************)
(* Part VI.  Streamed command output (src/ssh_service.py,                  *)
(*           _stream_shell_command), driven as a generator on a connected  *)
(*           session.  The transport thread of the session receives the    *)
(*           data and the exit status of the command in the order the      *)
(*           server sent them and buffers them in the channel.             *)
(***************************************************************************)
MaxChunks == 2       \* pieces of output a command writes before it exits

\* a piece of output: text, or white space only
ChunkKinds == {"text", "blank"}

\* channel: total = what the command writes in all, sent = how many pieces
\* have arrived, buf = arrived and not read, exit_ready = the exit status has
\* arrived
NoChannel == [open |-> FALSE, total |-> <<>>, sent |-> 0, buf |-> <<>>,
              exit_ready |-> FALSE]

InitStream == channel = NoChannel

\* re.sub(r'\[sudo\].*?password for.*?:', '', line).strip() of what one
\* recv(1024) returned, given as the indexes of the pieces it holds: white
\* space at both ends goes, the text in between stays
Cleaned(total, got) ==
    LET T(i) == total[i] = "text" IN SelectSeq(got, T)

\* an element the generator yields: the pieces of text it holds
Data(c) == [k |-> "data", code |-> 0, chunks |-> c]

\* the pieces of text the elements yielded so far hold
Yielded ==
    UNION {Range(stream[i].chunks) :
              i \in {j \in 1..Len(stream) : stream[j].k = "data"}}

\* _stream_shell_command(ssh, command, password) is called and its generator
\* started: open_session, set_combine_stderr, get_pty.  out is what the
\* command will write, code the status it will exit with
StreamOpen(out, code) ==
    /\ spc = "idle"
    /\ req' = [route |-> "generator", kind |-> "stream", user |-> 0,
               reachable |-> TRUE, exit |-> code]
    /\ channel' = [NoChannel EXCEPT !.open = TRUE, !.total = out]
    /\ spc' = "g_exec"
    /\ UNCHANGED <<sid, sess, attempts, fixes, caught, raised, entered, events,
                   cred_in_cmd, exit_status, error_output, result, resp,
                   stream>>
    /\ UNCHANGED notStream

\* channel.exec_command(final_command); channel.sendall(password + '\n'):
\* both forms of final_command hold "sudo -S"
StreamExec ==
    /\ spc = "g_exec"
    /\ events' = events \o <<"exec", "cred">>
    /\ spc' = "g_loop"
    /\ UNCHANGED <<req, sid, sess, attempts, fixes, caught, raised, entered,
                   cred_in_cmd, exit_status, error_output, result, resp,
                   stream, channel>>
    /\ UNCHANGED notStream

\* the next piece of output of the command arrives
DataArrives ==
    /\ channel.open
    /\ "exec" \in Range(events)
    /\ channel.sent < Len(channel.total)
    /\ channel' = [channel EXCEPT !.sent = @ + 1,
                                  !.buf = Append(@, channel.sent + 1)]
    /\ UNCHANGED sessVars
    /\ UNCHANGED notStream

\* the command has written everything and exited: its exit status arrives
ExitArrives ==
    /\ channel.open
    /\ "exec" \in Range(events)
    /\ channel.sent = Len(channel.total)
    /\ ~channel.exit_ready
    /\ channel' = [channel EXCEPT !.exit_ready = TRUE]
    /\ UNCHANGED sessVars
    /\ UNCHANGED notStream

\* while not channel.exit_status_ready():
LoopEnds(ch) == ch.exit_ready

\* one pass of the loop that finds something to do: the loop ends, or
\* recv_ready() is true and recv(1024) takes what has arrived (the pieces
\* are short), which is yielded when text is left of it
StreamPoll ==
    /\ spc = "g_loop"
    /\ IF LoopEnds(channel)
       THEN /\ spc' = "g_return"
            /\ UNCHANGED <<stream, channel>>
       ELSE /\ channel.buf # <<>>
            /\ channel' = [channel EXCEPT !.buf = <<>>]
            /\ stream' = IF Cleaned(channel.total, channel.buf) # <<>>
                         THEN Append(stream,
                                     Data(Cleaned(channel.total, channel.buf)))
                         ELSE stream
            /\ UNCHANGED spc
    /\ UNCHANGED <<req, sid, sess, attempts, fixes, caught, raised, entered,
                   events, cred_in_cmd, exit_status, error_output, result,
                   resp>>
    /\ UNCHANGED notStream

\* return channel.recv_exit_status(); finally: channel.close()
StreamReturn ==
    /\ spc = "g_return"
    /\ exit_status' = req.exit
    /\ channel' = [channel EXCEPT !.open = FALSE, !.buf = <<>>]
    /\ spc' = "g_done"
    /\ UNCHANGED <<req, sid, sess, attempts, fixes, caught, raised, entered,
                   events, cred_in_cmd, error_output, result, resp, stream>>
    /\ UNCHANGED notStream

\* the generator is exhausted; the next call starts from fresh locals
StreamEnd ==
    /\ spc = "g_done"
    /\ spc' = "idle"
    /\ req' = NoRequest
    /\ events' = <<>>
    /\ exit_status' = 0
    /\ stream' = <<>>
    /\ channel' = NoChannel
    /\ UNCHANGED <<sid, sess, attempts, fixes, caught, raised, entered,
                   cred_in_cmd, error_output, result, resp>>
    /\ UNCHANGED notStream

NextStream ==
    \/ \E out \in SeqsUpTo(ChunkKinds, MaxChunks), code \in ExitCodes :
          StreamOpen(out, code)
    \/ StreamExec
    \/ DataArrives
    \/ ExitArrives
    \/ StreamPoll
    \/ StreamReturn
    \/ StreamEnd

(***************************************************************************)
(* Part VII.  Status check of a list of hosts (src/app.py, check_status).  *)
(*            Each probe is one ssh_connect, summarised by the exception   *)
(*            that leaves it.                                              *)
(***************************************************************************)
MaxChecked == 2      \* hosts in the list of one status check

NoStatuses == [h \in {} |-> "offline"]

InitCheck ==
    /\ cpc = "idle"
    /\ ips = <<>>
    /\ threads = <<>>
    /\ statuses = NoStatuses

\* what leaves ssh_connect when the first ssh.connect raises x1 ("none": it
\* connects), _fix_host_key answers ok and the second ssh.connect raises x2
ConnectOutcome(x1, ok, x2) ==
    IF x1 = "none" THEN "none"
    ELSE IF AfterTryFailure(x1) = "fix" /\ ok THEN x2
    ELSE x1

\* the body and the except clauses of check_single_ip
StatusOf(x) ==
    IF x = "none" THEN "online"
    ELSE IF x = "AuthenticationException" THEN "auth_error"
    ELSE "offline"

\* POST /check-status with the list q
CheckStatus(q) ==
    /\ cpc = "idle"
    /\ ips' = q
    /\ threads' = <<>>
    /\ statuses' = NoStatuses
    /\ cpc' = IF q = <<>> THEN "done" ELSE "start"
    /\ UNCHANGED notCheck

\* for ip in ips: thread = threading.Thread(...); threads.append(thread);
\* thread.start()
ThreadStart ==
    /\ cpc = "start"
    /\ threads' = Append(threads, [st |-> "running", raised |-> "none"])
    /\ cpc' = IF Len(threads') = Len(ips) THEN "join" ELSE "start"
    /\ UNCHANGED <<ips, statuses>>
    /\ UNCHANGED notCheck

\* check_single_ip(ips[i]) runs to its end in its thread
ProbeEnds(i, x1, ok, x2) ==
    /\ i \in 1..Len(threads)
    /\ threads[i].st = "running"
    /\ LET x == ConnectOutcome(x1, ok, x2) IN
       /\ statuses' = (ips[i] :> StatusOf(x)) @@ statuses
       /\ threads' = [threads EXCEPT ![i] = [st |-> "finished", raised |-> x]]
    /\ UNCHANGED <<cpc, ips>>
    /\ UNCHANGED notCheck

\* a route that answers without waiting for its threads
JoinSkipped(th) == TRUE

\* for thread in threads: thread.join() has come to its end
AllJoined(th) == \A i \in 1..Len(th) : th[i].st = "finished"

\* lines 382-383 and the return of line 385
JoinAll ==
    /\ cpc = "join"
    /\ AllJoined(threads)
    /\ cpc' = "done"
    /\ UNCHANGED <<ips, threads, statuses>>
    /\ UNCHANGED notCheck

\* the response was sent; the next request starts from fresh locals
CheckEnd ==
    /\ cpc = "done"
    /\ cpc' = "idle"
    /\ ips' = <<>>
    /\ threads' = <<>>
    /\ statuses' = NoStatuses
    /\ UNCHANGED notCheck

NextCheck ==
    \/ \E q \in SeqsUpTo(Hosts, MaxChecked) : CheckStatus(q)
    \/ ThreadStart
    \/ \E i \in 1..MaxChecked, x1 \in ConnectErrors \cup {"none"},
          ok \in BOOLEAN, x2 \in ConnectErrors \cup {"none"} :
          ProbeEnds(i, x1, ok, x2)
    \/ JoinAll
    \/ CheckEnd

vars == <<tunnelVars, discVars, sessVars, nameVars, fanVars, streamVars,
          checkVars>>

\* the steps of one call after it was entered
TunnelStep(t, L) ==
    \/ CheckExisting(t)
    \/ \E exits \in BOOLEAN : TerminateOld(t, exits)
    \/ KillOld(t)
    \/ DelOld(t)
    \/ \E ok \in BOOLEAN : Spawn(t, ok)
    \/ \E l \in L : ReadLine(t, l)
    \/ WaitExpires(t)
    \/ SuperviseFails(t)
    \/ Rescan(t)
    \/ \E exits \in BOOLEAN : CleanupTerminate(t, exits)
    \/ CleanupKill(t)
    \/ Unregister(t)
    \/ \E exits \in BOOLEAN : ExceptTerminate(t, exits)
    \/ ExceptKill(t)
    \/ ExceptDel(t)
    \/ Return(t)

\* requests served by the threads of the server, any interleaving
NextTunnel ==
    \/ \E t \in Threads, h \in Hosts : Call(t, h)
    \/ \E t \in Threads : TunnelStep(t, CoreLines)
    \/ \E p \in Pids : ChildExit(p)

\* requests in parallel for distinct hosts only (calls for one host in sequence)
NextBatch ==
    \/ \E t \in Threads, h \in Hosts : CallDistinct(t, h)
    \/ \E t \in Threads : TunnelStep(t, CoreLines)
    \/ \E p \in Pids : ChildExit(p)

\* one request at a time for one host, every kind of output line
NextScan ==
    \/ Call(1, 1)
    \/ TunnelStep(1, ScanLines)
    \/ \E p \in Pids : ChildExit(p)

(***************************************************************************)
(* Properties                                                              *)
(***************************************************************************)
\* the live children spawned for host h
LiveOf(h) == {p \in Pids : procs[p].ip = h /\ Live(procs[p])}

\* the call of thread t has returned (success, error_message)
Returned(t) == pc[t] = "done"

\* C1: with the calls for one host made one after the other, a host never has
\* two live tunnel children, and when a call reaches Popen the child that was
\* registered for its host has been terminated and its entry removed.
C1_OneTunnelPerHost ==
    /\ \A h \in Hosts : Cardinality(LiveOf(h)) <= 1
    /\ \A t \in Threads :
          pc[t] = "spawn" => vnc_processes[ip[t]] = 0 /\ LiveOf(ip[t]) = {}

\* a tunnel that had been returned as ready was replaced by a new live one
C1_Witness ==
    \E h \in Hosts, p \in ready, q \in Pids :
        /\ p # q /\ procs[p].ip = h /\ procs[q].ip = h
        /\ procs[p].st = "dead" /\ Live(procs[q]) /\ vnc_processes[h] = q

\* C2: under any interleaving of calls, a host never has two live children
\* and every live child is the one the registry holds for its host.
C2_RegistryExclusive ==
    \A h \in Hosts :
        /\ Cardinality(LiveOf(h)) <= 1
        /\ LiveOf(h) \subseteq {vnc_processes[h]}

\* C3: when a call returns a failure, the child it spawned is not alive and
\* the registry does not hold that child.
C3_FailureCleansUp ==
    \A t \in Threads :
        (Returned(t) /\ ~success[t] /\ proc[t] # 0) =>
            /\ ~Live(procs[proc[t]])
            /\ vnc_processes[ip[t]] # proc[t]

\* C4: the first line matching a signature is the last line taken from the
\* queue: no line captured before the last one matches a signature.
C4_FirstMatchEndsWait ==
    \A t \in Threads :
        \A i \in 1..(Len(all_output_lines[t]) - 1) :
            LoopMatch(all_output_lines[t][i]).k = "none"

\* the outcome classes of the specification, by message
OutcomeOf(k) == IF k \in {"bad_sai", "bad_ct"} THEN "config" ELSE k

ClaimPhrases == {"ws_started", "listen_on", "perm_denied", "auth_failed",
                 "conn_refused", "no_route", "hostkey_failed", "x11vnc_nf",
                 "websockify_nf", "no_display", "bad_sai", "bad_ct"}

\* the outcome the stated priority order gives a line
ClaimedOutcome(l) ==
    IF l.ph \cap {"ws_started", "listen_on"} # {} THEN "ok"
    ELSE IF l.ph \cap {"perm_denied", "auth_failed"} # {} THEN "auth"
    ELSE IF "conn_refused" \in l.ph THEN "refused"
    ELSE IF "no_route" \in l.ph THEN "no_route"
    ELSE IF "hostkey_failed" \in l.ph THEN "hostkey"
    ELSE IF l.ph \cap {"x11vnc_nf", "websockify_nf"} # {} THEN "remote_nf"
    ELSE IF "no_display" \in l.ph THEN "no_display"
    ELSE "config"

\* C5: a call that captured one line carrying signatures of the table returns
\* the outcome of the highest-priority one in the stated order.
C5_PriorityOrder ==
    \A t \in Threads :
        (/\ Returned(t)
         /\ error_message[t].k # "internal"
         /\ Len(all_output_lines[t]) = 1
         /\ all_output_lines[t][1].ph # {}
         /\ all_output_lines[t][1].ph \subseteq ClaimPhrases)
        => OutcomeOf(error_message[t].k) = ClaimedOutcome(all_output_lines[t][1])

\* the failure signatures present somewhere in the captured output
SignaturesIn(lines) ==
    {k \in {"sshpass_nf", "remote_nf", "no_display", "auth", "refused",
            "no_route", "ssh_timeout", "hostkey", "bad_sai", "bad_ct"} :
        \/ k = "sshpass_nf" /\ InOutput(lines, "sshpass_nf")
        \/ k = "remote_nf" /\ (InOutput(lines, "x11vnc_nf")
                                \/ InOutput(lines, "websockify_nf"))
        \/ k = "no_display" /\ InOutput(lines, "no_display")
        \/ k = "auth" /\ (InOutput(lines, "perm_denied")
                           \/ InOutput(lines, "auth_failed"))
        \/ k = "refused" /\ InOutput(lines, "conn_refused")
        \/ k = "no_route" /\ InOutput(lines, "no_route")
        \/ k = "ssh_timeout" /\ InOutput(lines, "connect_to_host")
                             /\ InOutput(lines, "port22_timed_out")
        \/ k = "hostkey" /\ InOutput(lines, "hostkey_failed")
        \/ k = "bad_sai" /\ InOutput(lines, "bad_sai")
        \/ k = "bad_ct" /\ InOutput(lines, "bad_ct")}

\* the wait of thread t ended by expiry, no line having matched in the loop
ExpiredUnmatched(t) ==
    /\ Returned(t)
    /\ error_message[t].k # "internal"
    /\ \A i \in 1..Len(all_output_lines[t]) :
          LoopMatch(all_output_lines[t][i]).k = "none"

\* C6: after a wait that expired unmatched the call fails with the message of
\* a signature present in the captured output if there is one, with the
\* timeout message if the captured output is empty, and otherwise with the
\* unknown-error message carrying the first 500 characters at most.
C6_ExpiryRescan ==
    \A t \in Threads :
        ExpiredUnmatched(t) =>
            LET lines == all_output_lines[t]
                m == error_message[t]
            IN /\ ~success[t]
               /\ IF SignaturesIn(lines) # {}
                  THEN m.k \in SignaturesIn(lines)
                  ELSE IF FullLen(lines) = 0
                  THEN m = MsgTimeout
                  ELSE /\ m.k = "unknown"
                       /\ m.n <= SampleLimit
                       /\ m.n = IF FullLen(lines) <= SampleLimit
                                THEN FullLen(lines) ELSE SampleLimit

\* an unmatched wait whose captured output is longer than the sample
C6_Witness ==
    \E t \in Threads :
        /\ ExpiredUnmatched(t)
        /\ FullLen(all_output_lines[t]) > SampleLimit
        /\ error_message[t] = Msg("unknown", SampleLimit)

\* C7: the entry of a tunnel returned as ready stays in the registry, pointing
\* at the child of that call, until a call for the same host replaces it
\* (terminates it and deletes the entry before spawning).
C7_ReadyStaysRegistered ==
    /\ [](\A t \in Threads :
            (Returned(t) /\ success[t]) => vnc_processes[ip[t]] = proc[t])
    /\ [][\A h \in Hosts :
            (vnc_processes[h] \in ready /\ vnc_processes'[h] # vnc_processes[h])
            => \E t \in Threads :
                  ip[t] = h /\ pc[t] = "del_old" /\ pc'[t] = "spawn"]_vars

\* what thread t holds of its call
Locals(t) == <<pc[t], ip[t], proc[t], success[t], error_message[t],
               all_output_lines[t]>>

\* a step of thread t touches neither another thread's call nor the entry or
\* the children of a host other than its own
StepIsolated(t) ==
    /\ \A u \in Threads \ {t} : Locals(u)' = Locals(u)
    /\ \A h \in Hosts \ {ip[t], ip'[t]} :
          /\ vnc_processes'[h] = vnc_processes[h]
          /\ \A p \in Pids : procs[p].ip = h => procs'[p] = procs[p]

\* C8: calls in parallel for distinct hosts are independent: each returns a
\* result for its own host (ready with its own child registered, or failed
\* with no entry left), and no step of a call touches another host.
C8_DistinctHostsIndependent ==
    /\ [](\A t \in Threads :
            /\ pc[t] # "raised"
            /\ Returned(t) =>
                 /\ ip[t] \in Hosts
                 /\ proc[t] # 0 => procs[proc[t]].ip = ip[t]
                 /\ vnc_processes[ip[t]] = IF success[t] THEN proc[t] ELSE 0)
    /\ [][\A t \in Threads : Locals(t)' # Locals(t) => StepIsolated(t)]_vars

\* one call has failed and cleaned up while the tunnel of another host is ready
C8_Witness ==
    \E t \in Threads, u \in Threads :
        /\ Returned(t) /\ ~success[t] /\ proc[t] # 0
        /\ Returned(u) /\ success[u] /\ ip[u] # ip[t]
        /\ Live(procs[proc[u]])

\* C9: every request ends with a success response carrying the list.
C9_DiscoverNeverFails == dpc = "done" => response.success

\* the strategy returned at least one host
FoundHosts(r) == ~r.none /\ r.ips # <<>>

C11_FallsThrough ==
    (dpc = "finish" /\ "brute" \notin Range(invoked)) => active_ips # <<>>

\* C12: the list returned holds no occurrence of the server's own address, of
\* the gateway's address or of an excluded address.
C12_NoExcludedAddress ==
    (dpc = "done" /\ response.success) =>
        \A i \in 1..Len(response.ips) :
            /\ server_ip # 0 => response.ips[i] # server_ip
            /\ gateway_ip # 0 => response.ips[i] # gateway_ip
            /\ response.ips[i] \notin IP_EXCLUSION_LIST

\* C13: the list returned is in ascending order of the last octet.
C13_SortedByOctet ==
    (dpc = "done" /\ response.success) =>
        \A i \in 1..(Len(response.ips) - 1) :
            LastOctet(response.ips[i]) <= LastOctet(response.ips[i + 1])

\* a tool listed two hosts in descending order and both were returned
C13_Witness ==
    /\ dpc = "done" /\ response.success
    /\ Len(nmap_results.ips) = 2
    /\ LastOctet(nmap_results.ips[1]) > LastOctet(nmap_results.ips[2])
    /\ Len(response.ips) = 2

\* the channel of the running command has delivered its exit status
Exited == "exit" \in Range(events)

\* C14: one connect call makes at most two attempts and at most one key purge;
\* a second attempt and a purge happen only after a host-key mismatch, and a
\* second attempt only after the purge; a retry that connects leaves the
\* session connected with one purge recorded.
C14_OneRetryAfterKeyPurge ==
    /\ attempts <= 2
    /\ fixes <= 1
    /\ fixes = 1 => caught = "BadHostKeyException"
    /\ attempts = 2 => (fixes = 1 /\ caught = "BadHostKeyException")
    /\ spc = "reconnect" => (fixes = 1 /\ attempts = 1)
    /\ (raised \in ConnectErrors \ {"BadHostKeyException"} /\ ~entered
            /\ fixes = 0) => attempts = 1
    /\ (spc = "body" /\ attempts = 2) => (sess[sid] = "connected" /\ fixes = 1)

\* a connect that failed on the host key, was remediated and connected
C14_Witness ==
    /\ spc = "body" /\ attempts = 2 /\ fixes = 1
    /\ caught = "BadHostKeyException" /\ sess[sid] = "connected"

\* C15: when the retry after the key purge fails too, the error that reaches
\* the caller is the host-key mismatch, and the answer says that the
\* automatic correction was tried.
C15_RetryFailureKeepsClass ==
    (spc = "done" /\ req.route = "action" /\ attempts = 2 /\ ~entered) =>
        /\ raised = "BadHostKeyException"
        /\ RouteHandler(raised).fix_noted

\* C17: a command whose exit status arrived gives a success result exactly
\* when the status is zero and CommandExecutionError otherwise, whatever
\* stderr holds; the response follows the result.
C17_SuccessIffExitZero ==
    Exited =>
        /\ result.kind = "success" <=> exit_status = 0
        /\ result.kind = "CommandExecutionError" <=> exit_status # 0
        /\ spc = "done" => (resp = 200 <=> exit_status = 0)

\* a command that wrote an error line to stderr and exited with 0
C17_Witness ==
    /\ Exited /\ spc = "done" /\ exit_status = 0
    /\ "error" \in Range(error_output)
    /\ result.kind = "success" /\ resp = 200

\* the lines of stderr left once the echoed prompt and the blank lines are gone
Classified(err) ==
    LET Kept(l) == l \notin {"prompt_pt", "blank"} IN SelectSeq(err, Kept)

\* C18: of a failed command, every non-empty line of stderr other than the
\* stripped prompt is reported once, in the warnings when it starts with W:
\* and in the details otherwise; the details hold no warning line and the
\* warnings no other line.
C18_StderrClassified ==
    (Exited /\ result.kind = "CommandExecutionError") =>
        /\ \A i \in 1..Len(result.details) :
              result.details[i] \notin {"warning", "blank"}
        /\ \A i \in 1..Len(result.warnings) : result.warnings[i] = "warning"
        /\ Len(result.details) + Len(result.warnings)
              = Len(Classified(error_output))

\* C19: a command invoked on the channel is followed at once by one write of
\* the password to its input stream, before the exit status is awaited, and
\* the password travels no other way.
C19_CredentialOnStdinOnce ==
    (events # <<>> /\ spc # "write") =>
        /\ events[1] = "exec"
        /\ Len(events) >= 2
        /\ events[2] = "cred"
        /\ Cardinality({i \in 1..Len(events) : events[i] = "cred"}) = 1
        /\ ~cred_in_cmd

\* C20: the stream of a streaming action ends with one sentinel, its last
\* element: the end sentinel with the exit status when the host accepted the
\* connection and the command ran to its end, the error sentinel otherwise.
C20_StreamEndsWithSentinel ==
    (spc = "done" /\ req.route = "stream" /\ resp # 400) =>
        /\ stream # <<>>
        /\ \A i \in 1..(Len(stream) - 1) : stream[i].k = "chunk"
        /\ stream[Len(stream)] = IF req.reachable THEN EndSentinel(req.exit)
                                 ELSE ErrorSentinel

\* ---------------------------------------------------------------------------
\* Launcher file names
\* ---------------------------------------------------------------------------
IsDigitRun(q) == q # <<>> /\ \A i \in 1..Len(q) : q[i] \in Digits

\* lengths of the endings of s made of an optional separator and a digit run
NumericEndings(s) ==
    {n \in 1..Len(s) :
        \/ IsDigitRun(SubSeq(s, Len(s) - n + 1, Len(s)))
        \/ /\ n > 1
           /\ s[Len(s) - n + 1] \in Separators
           /\ IsDigitRun(SubSeq(s, Len(s) - n + 2, Len(s)))}

\* the stem with its longest such ending removed
WithoutNumericEnding(s) ==
    IF NumericEndings(s) = {} THEN s
    ELSE LET n == CHOOSE m \in NumericEndings(s) :
                      \A o \in NumericEndings(s) : o <= m
         IN  SubSeq(s, 1, Len(s) - n)

\* C27 as stated: the key of a launcher file name is the name with an optional
\* trailing - or _ followed by a digit run removed from the end of its stem;
\* a stem without a trailing digit run is unchanged, and the name is its own
\* key when the removal leaves the stem empty.
C27_KeyAsStated ==
    (filename # NoFile /\ Launcher(filename)) =>
        key = IF WithoutNumericEnding(filename.stem) = <<>> THEN filename
              ELSE [filename EXCEPT !.stem = WithoutNumericEnding(filename.stem)]

\* C27, amended: the same rule, where the name is its own key when the removal
\* leaves a stem that is empty or made only of spaces, hyphens and underscores.
C27_KeyRule ==
    (filename # NoFile /\ Launcher(filename)) =>
        LET rest == WithoutNumericEnding(filename.stem)
        IN  key = IF \A i \in 1..Len(rest) : rest[i] \in StripChars
                  THEN filename
                  ELSE [filename EXCEPT !.stem = rest]

\* a name whose stem keeps only separators once the numeric ending is removed
C27_Witness ==
    /\ filename # NoFile /\ Launcher(filename)
    /\ WithoutNumericEnding(filename.stem) \notin {<<>>, filename.stem}
    /\ key = filename

\* ---------------------------------------------------------------------------
\* Per-account fan-out
\* ---------------------------------------------------------------------------
\* the request was answered by the loop and what follows it, not by one of
\* the returns that precede the loop
LoopAnswered ==
    /\ fpc = "done" /\ call.action \in user_specific_actions
    /\ reply.kind \notin {"no_users", "bad_image", "upload_failed"}

\* C21: whatever the action and the payload, a fan-out answers with an
\* aggregate that holds exactly one entry for every listed account; a unit
\* that fails (command failure, payload declined by the builder, unexpected
\* exception) leaves a failure entry for its account and the aggregate is
\* not replaced by a single error.
C21_OneEntryPerAccount ==
    LoopAnswered =>
        /\ reply.kind = "aggregate"
        /\ DOMAIN reply.user_results = Range(users)
        /\ \A u \in DOMAIN reply.user_results :
              reply.user_results[u].type = "dict"

\* C22: the aggregate's success flag is true exactly when every entry is a
\* success; when exactly one of the N accounts failed the flag is false and
\* the N-1 successful entries are in the aggregate.
C22_AllSucceededIffEach ==
    reply.kind = "aggregate" =>
        LET rs == reply.user_results
            good == {u \in DOMAIN rs : rs[u].success}
        IN  /\ reply.success <=> (good = DOMAIN rs)
            /\ DOMAIN rs = Range(users)
            /\ Cardinality(DOMAIN rs \ good) = 1 =>
                  /\ ~reply.success
                  /\ Cardinality(good) = Len(users) - 1

\* two accounts, exactly one of which failed
C22_Witness ==
    /\ reply.kind = "aggregate"
    /\ Len(users) = 2
    /\ Cardinality({u \in DOMAIN reply.user_results :
                       reply.user_results[u].success}) = 1
    /\ ~reply.success

\* C23: the units of a fan-out run one at a time and in the order of the
\* listing: at most one handler is in flight, it is the one of the account
\* taken last, every account taken before it has its entry, and the
\* aggregate is answered only when every account has its entry.
C23_OneAtATime ==
    /\ Cardinality(inflight) <= 1
    /\ \A i \in 1..Len(users) : users[i] \in inflight => i = started
    /\ \A i \in 1..started :
          users[i] \notin inflight => users[i] \in DOMAIN results
    /\ DOMAIN results \subseteq {users[i] : i \in 1..started} \ inflight
    /\ reply.kind = "aggregate" =>
          /\ started = Len(users)
          /\ inflight = {}
          /\ DOMAIN reply.user_results = Range(users)

\* the second account's unit is running and the first one's is over
C23_Witness ==
    /\ started = 2
    /\ inflight = {users[2]}
    /\ users[1] \in DOMAIN results

\* the failure class of an exception that reaches gerenciar_atalhos_ip and of
\* an error message of _start_vnc_tunnel
ClassOfException(x) ==
    IF x = "AuthenticationException" THEN "auth"
    ELSE IF x \in {"BadHostKeyException", "UnknownHost"} THEN "hostkey"
    ELSE IF x = "timeout" THEN "timeout"
    ELSE "other"
ClassOfMessage(m) ==
    IF m = "auth" THEN "auth"
    ELSE IF m = "hostkey" THEN "hostkey"
    ELSE IF m = "ssh_timeout" THEN "timeout"
    ELSE "other"

\* the status the taxonomy gives to a failure class (0 = none)
ClaimedStatus(class) ==
    IF class = "auth" THEN 401
    ELSE IF class = "hostkey" THEN 409
    ELSE IF class = "timeout" THEN 504
    ELSE 0

\* the three routes, one at a time
SessionStatusByClass ==
    (spc = "done" /\ req.route = "action" /\ raised # "none"
        /\ ClassOfException(raised) # "other") =>
        resp = ClaimedStatus(ClassOfException(raised))
FanOutStatusByOutcome ==
    reply.kind = "aggregate" =>
        reply.status =
            IF \A u \in DOMAIN reply.user_results : reply.user_results[u].success
            THEN 200 ELSE 207
TunnelStatusByClass ==
    \A t \in Threads :
        (pc[t] = "done" /\ ~success[t]
            /\ ClassOfMessage(error_message[t].k) # "other") =>
            StartVncStatus(success[t]) =
                ClaimedStatus(ClassOfMessage(error_message[t].k))

\* C24: the status of a response is a function of the failure class, the same
\* on every route: authentication failure 401, host-key mismatch or unknown
\* host 409, timeout 504; a fan-out answers 207 exactly when some account
\* failed and 200 exactly when none did.
C24_StatusByFailureClass ==
    /\ SessionStatusByClass
    /\ FanOutStatusByOutcome
    /\ TunnelStatusByClass

\* ---------------------------------------------------------------------------
\* Launcher backups
\* ---------------------------------------------------------------------------
NamesOf(files) == {f.name : f \in files}

\* C25: a disable followed by a restore that requests every file of the
\* backup, each once, leaves every desktop directory with the file set it had before the
\* disable, and the restore reports no error, also when several of the names
\* have the same key.
C25_RoundTrip ==
    (/\ fpc = "done" /\ reply.kind = "aggregate"
     /\ done = <<"desativar">> /\ call.action = "ativar"
     /\ call.backed # {}
     /\ call.backed = Range(call.backup_files)
     /\ Len(call.backup_files) = Cardinality(call.backed)) =>
        /\ \A a \in Accounts : NamesOf(live[a]) = NamesOf(orig[a])
        /\ \A u \in DOMAIN reply.user_results :
              reply.user_results[u].errors = <<>>

\* the step in which the restore of account u runs its lookups (the desktop
\* directory and the backup root were found and paths were requested)
RestoreRuns(u) ==
    /\ fpc = "loop" /\ u \in inflight /\ u \notin inflight'
    /\ call.action = "ativar" /\ call.backup_files # <<>>
    /\ GetRemoteDesktopPath(u) # NoPath
    /\ tree.root

\* files of the backup that have key kk, and those a request of the running
\* call has the key of
BackedFor(kk) == {g \in tree.files : Key(g.dir, g.name) = kk}
Candidates ==
    UNION {BackedFor(Key(p.dir, p.name)) : p \in Range(call.backup_files)}

Misses ==
    {i \in 1..Len(call.backup_files) :
        BackedFor(Key(call.backup_files[i].dir,
                      call.backup_files[i].name)) = {}}

\* C28: a restore writes one warning for each requested path that has no
\* file of its key in the backup and no error for it; when every requested
\* path misses, the entry of the account has success true, count 0, no error
\* and one warning for each path, and no file has moved.
C28_MissIsWarning ==
    [][\A u \in Accounts :
        RestoreRuns(u) =>
            /\ results'[u].type = "dict"
            /\ Len(results'[u].warnings) = Cardinality(Misses)
            /\ \A i \in Misses :
                  \E j \in 1..Len(results'[u].warnings) :
                      results'[u].warnings[j] = call.backup_files[i].name
            /\ Len(results'[u].errors)
                  <= Len(call.backup_files) - Cardinality(Misses)
            /\ Cardinality(Misses) = Len(call.backup_files) =>
                  /\ results'[u].success
                  /\ results'[u].n = 0
                  /\ results'[u].errors = <<>>
                  /\ live' = live /\ tree' = tree
    ]_vars

\* a restore of two paths, both missed, has answered
C28_Witness ==
    /\ call.action = "ativar" /\ Len(call.backup_files) = 2
    /\ tree.root
    /\ \E u \in DOMAIN results :
          /\ results[u].type = "dict" /\ results[u].message = "restored"
          /\ results[u].success /\ results[u].n = 0
          /\ Len(results[u].warnings) = 2

\* the step in which the disable of account u runs on the desktop directory
\* it has found
DisableRuns(u) ==
    /\ fpc = "loop" /\ u \in inflight /\ u \notin inflight'
    /\ call.action = "desativar"
    /\ GetRemoteDesktopPath(u) # NoPath

\* C29: a disable moves every launcher of the desktop directory into the
\* backup subdirectory named as that directory, answers success with the
\* number of launchers as its count (0 when there is none, on each repeated
\* call) and leaves the other files where they are.
C29_DisableMovesAll ==
    [][\A u \in Accounts :
        LET path == GetRemoteDesktopPath(u)
            found == {f \in live[path.owner] : Launcher(f.name)}
        IN  DisableRuns(u) =>
                /\ results'[u].type = "dict"
                /\ results'[u].success
                /\ results'[u].n = Cardinality(found)
                /\ live' = [live EXCEPT ![path.owner] = @ \ found]
                /\ tree'.files =
                      tree.files \cup {Entry(path.base, f) : f \in found}
    ]_vars

\* C30: the unit of an account that has a desktop directory of its own takes
\* out of the backup, and puts on its desktop, only files that were backed up
\* from that account.
C30_TreePerAccount ==
    [][\A u \in Accounts :
        (/\ fpc = "loop" /\ u \in inflight /\ u \notin inflight'
         /\ call.action \in sftp_shortcut_actions
         /\ desk[u] # "") =>
            /\ \A g \in tree.files \ tree'.files : g.owner = u
            /\ \A f \in live'[u] \ live[u] : f.owner = u
    ]_vars

\* the request names an action the dispatch table does not hold, or gives
\* its builder a payload the builder declines
Refused(c) ==
    \/ c.action \in SystemActions \cup ShellActions /\ c.action \notin COMMANDS
    \/ c.action \in DecliningBuilders /\ ~c.valid

\* C31: a request whose action is unknown or whose payload the builder
\* declines, once a handler was called for it, is answered with the
\* structured failure: status 400, success false, never the generic
\* internal-error response.
C31_StructuredFailure ==
    (/\ fpc = "done" /\ Refused(call)
     /\ (call.action \in user_specific_actions => DOMAIN results # {})) =>
        /\ reply.status = 400
        /\ ~reply.success
        /\ reply.kind # "unhandled"

\* C32: an account whose disable or restore found no desktop directory, or
\* whose restore found no backup root, has a failure entry, and the
\* aggregate of that fan-out is not a success.
C32_UnresolvedIsFailure ==
    (reply.kind = "aggregate" /\ call.action \in sftp_shortcut_actions) =>
        \A u \in DOMAIN reply.user_results :
            reply.user_results[u].message \in {"ERRO_desktop", "ERRO_backup"} =>
                /\ ~reply.user_results[u].success
                /\ ~reply.success

\* C33: when the readiness loop was left by the `break` of a failure
\* signature, the message in force after the rescan is the one the loop set
\* for that signature.
C33_RescanKeepsLoopMessage ==
    \A t \in Threads :
        LET lines == all_output_lines[t] IN
        (/\ pc[t] = "cleanup" /\ ~success[t]
         /\ lines # <<>>
         /\ LoopMatch(lines[Len(lines)]).brk) =>
            error_message[t] = Msg(LoopMatch(lines[Len(lines)]).k, 0)

\* C34: when the generator of _stream_shell_command has ended, every piece
\* of text the command wrote before it exited has been yielded.
C34_NoOutputLost ==
    spc = "g_done" =>
        {i \in 1..Len(channel.total) : channel.total[i] = "text"}
            \subseteq Yielded

\* the files on the desktops and in the backup, by name and origin
Everywhere ==
    UNION {live[a] : a \in Accounts}
        \cup {File(g.name, g.owner) : g \in tree.files}

\* C35: every file that was on a desktop before the first request is still
\* on a desktop or in the backup, under its name, whatever disables and
\* restores have run; a rename onto a name that exists is refused.
C35_NoLauncherDestroyed ==
    \A a \in Accounts : orig[a] \subseteq Everywhere

\* a restore that restored nothing was refused a rename: the desktop holds
\* another file of the name the backup file has
C35_Witness ==
    /\ call.action = "ativar"
    /\ \E u \in DOMAIN results :
          /\ results[u].type = "dict" /\ results[u].n = 0
          /\ results[u].errors # <<>>
          /\ GetRemoteDesktopPath(u) # NoPath
          /\ \E g \in tree.files, f \in live[GetRemoteDesktopPath(u).owner] :
                /\ g.name = f.name /\ g.owner # f.owner
                /\ g.name = results[u].errors[1]

\* C36: a restore that runs its lookups accounts for each requested path
\* once, as restored, as a warning or as an error, and its count is the
\* number of files that came to the desktop directory and left the backup.
C36_EachPathOnce ==
    [][\A u \in Accounts :
        LET owner == GetRemoteDesktopPath(u).owner IN
        RestoreRuns(u) =>
            /\ results'[u].type = "dict"
            /\ results'[u].n + Len(results'[u].warnings)
                  + Len(results'[u].errors) = Len(call.backup_files)
            /\ results'[u].n = Cardinality(live'[owner] \ live[owner])
            /\ results'[u].n = Cardinality(tree.files \ tree'.files)
            /\ live[owner] \subseteq live'[owner]
    ]_vars

\* a restore of two paths has answered with one file restored and one error
C36_Witness ==
    /\ call.action = "ativar" /\ Len(call.backup_files) = 2
    /\ \E u \in DOMAIN results :
          /\ results[u].type = "dict" /\ results[u].message = "restored"
          /\ results[u].n = 1
          /\ Len(results[u].errors) = 1

\* positions of a request at which the session it opened is not closed yet
BeforeClose ==
    {"connect", "body", "write", "await", "fix", "reconnect", "finally"}

\* C37: a session is connected only while the request that opened it runs
\* its operation or the handlers of ssh_connect; it stays connected as long
\* as the operation runs, and once ssh_connect has been left (whether the
\* operation ended, raised, the first attempt failed, or the retry failed or
\* connected) the session is closed, as is every session of an earlier
\* request.
C37_ClosedWhenOperationEnds ==
    \A s \in Sessions :
        /\ sess[s] = "connected" => (s = sid /\ spc \in BeforeClose)
        /\ (s = sid /\ spc \in {"body", "write", "await"}) =>
              sess[s] = "connected"
        /\ (s <= sid /\ ~(s = sid /\ spc \in BeforeClose)) =>
              sess[s] = "closed"

\* the operation raised on a session that connected at the retry, and the
\* request has been answered
C37_Witness ==
    /\ spc = "done" /\ req.route = "action"
    /\ attempts = 2 /\ fixes = 1 /\ entered
    /\ raised # "none"
    /\ sess[sid] = "closed"

\* the status the probe of a host is to give, by what its connect raised
ExpectedStatus(x) ==
    CASE x = "none" -> "online"
      [] x = "AuthenticationException" -> "auth_error"
      [] OTHER -> "offline"

\* C38: the probes are all started before the route waits for any of them;
\* when the route answers, every probe has finished and the result holds one
\* status for each requested host and for no other: online when a probe of
\* the host connected, auth_error when its authentication was rejected,
\* offline for any other failure, whatever the other probes met.
C38_EveryHostOneStatus ==
    /\ cpc = "join" => Len(threads) = Len(ips)
    /\ (cpc = "done" /\ ips # <<>>) =>
          /\ Len(threads) = Len(ips)
          /\ \A i \in 1..Len(threads) : threads[i].st = "finished"
          /\ DOMAIN statuses = Range(ips)
          /\ \A h \in Range(ips) :
                \E i \in 1..Len(ips) :
                    /\ ips[i] = h
                    /\ statuses[h] = ExpectedStatus(threads[i].raised)

\* a check of two hosts has answered: one probe connected, the other failed
\* on something that is no rejected authentication
C38_Witness ==
    /\ cpc = "done" /\ Len(ips) = 2 /\ ips[1] # ips[2]
    /\ statuses[ips[1]] = "offline"
    /\ statuses[ips[2]] = "online"
    /\ threads[1].raised = "timeout"

Init ==
    /\ InitTunnel /\ InitDiscovery /\ InitSession /\ InitNames /\ InitFanOut
    /\ InitStream
    /\ InitCheck

SpecTunnel == Init /\ [][NextTunnel]_vars
SpecBatch == Init /\ [][NextBatch]_vars
SpecScan == Init /\ [][NextScan]_vars
SpecDiscovery == Init /\ [][NextDiscovery]_vars
SpecSession == Init /\ [][NextSession]_vars
SpecNames == Init /\ [][NextNames]_vars
SpecFanOut == Init /\ [][NextFanOut]_vars
SpecBackup == Init /\ [][NextBackup]_vars
SpecStream == Init /\ [][NextStream]_vars
SpecCheck == Init /\ [][NextCheck]_vars

====
